---- MODULE Spec2Model ----
(***************************************************************************)
(* A model of the function-agents library: thin agents around a chat       *)
(* completion client.  Every run is a chain of request/response round      *)
(* trips; the code between two awaits runs to completion, so one action    *)
(* of the model is "a response arrives and the continuation runs up to     *)
(* the next await or to the return".                                       *)
(***************************************************************************)
EXTENDS Integers, Sequences, FiniteSets, TLC

VARIABLES
    inst,        \* the agent instance under construction / in use
    ctorErr,     \* what the last constructor call threw, if anything
    pc,          \* "idle" | "await" | "done"
    step,        \* the step whose completion request is outstanding
    input,       \* arguments of the current run call
    loc,         \* the locals of the run in progress
    issued,      \* completion requests issued by the current run, in order
    received,    \* the completion client's answers, in order (history)
    accepted,    \* steps whose response passed the step's check (history)
    failedAt,    \* the step at which the run took its catch branch (history)
    ret,         \* how the run ended: a returned result or an escaped exception
    agents,      \* several live instances, by the name that holds them
    target,      \* the instance each overlapping run call was made on
    runs         \* the state of each overlapping run call

\* the variables of several run calls in flight at once
concVars == <<agents, target, runs>>

vars == <<inst, ctorErr, pc, step, input, loc, issued, received, accepted, failedAt, ret, agents, target, runs>>

-----------------------------------------------------------------------------
(* Bounds of the model *)

\* longest functionArguments list the interpreter response carries
MaxArgs == 2
\* longest key/value list of a Step D arguments text
MaxPairs == 2
\* operands of the arithmetic agent range over -MaxOperand..MaxOperand
MaxOperand == 2

-----------------------------------------------------------------------------
(* JavaScript values.  Each kind has its own record shape. *)

Undef == [t |-> "undefined"]
Null == [t |-> "null"]
NaN == [t |-> "NaN"]
Num(n) == [t |-> "number", n |-> n, d |-> 1]
Str(s) == [t |-> "string", s |-> s]
\* a string put together from pieces (a template literal, JSON.stringify output)
Text(toks) == [t |-> "text", toks |-> toks]
Bool(b) == [t |-> "boolean", b |-> b]
\* an object: its own enumerable properties, in insertion order
Obj(pairs) == [t |-> "object", pairs |-> pairs]
Arr(items) == [t |-> "array", items |-> items]
\* an Error instance: name and message are not enumerable
Err(name, message) == [t |-> "Error", name |-> name, message |-> message]
\* the completion client's own error: an Error with enumerable fields
ApiErr == [t |-> "APIError", status |-> "401"]

IsNum(v) == v.t = "number"

\* !v of JavaScript
Falsy(v) ==
    \/ v.t \in {"undefined", "null", "NaN"}
    \/ v.t = "string" /\ v.s = ""
    \/ v.t = "text" /\ v.toks = <<>>
    \/ v.t = "boolean" /\ ~v.b
    \/ v.t = "number" /\ v.n = 0

\* v == null of JavaScript (null or undefined)
IsNullish(v) == v.t \in {"undefined", "null"}

RECURSIVE KeyIndex(_, _, _)
KeyIndex(pairs, k, i) ==
    IF i > Len(pairs) THEN 0
    ELSE IF pairs[i][1] = k THEN i
    ELSE KeyIndex(pairs, k, i + 1)

\* obj[k] = v : replaces the value in place, or appends a new key
ObjSet(pairs, k, v) ==
    LET i == KeyIndex(pairs, k, 1)
    IN IF i = 0 THEN Append(pairs, <<k, v>>)
       ELSE [pairs EXCEPT ![i] = <<k, v>>]

\* obj[k] : undefined for a missing key
ObjGet(o, k) ==
    IF o.t # "object" THEN Undef
    ELSE LET i == KeyIndex(o.pairs, k, 1)
         IN IF i = 0 THEN Undef ELSE o.pairs[i][2]

\* Object.keys(obj)
ObjectKeys(o) == [i \in 1..Len(o.pairs) |-> o.pairs[i][1]]

-----------------------------------------------------------------------------
(* Texts.  A text is a sequence of tokens; a JSON text is the sequence of *)
(* key/value pairs as written (or a literal), or malformed.               *)

NoText == [j |-> "absent"]
EmptyText == [j |-> "empty"]
Malformed == [j |-> "malformed"]
ObjText(pairs) == [j |-> "object", written |-> pairs]
LitText(v) == [j |-> "literal", lit |-> v]

RECURSIVE ParsePairs(_, _, _)
ParsePairs(written, i, acc) ==
    IF i > Len(written) THEN acc
    ELSE ParsePairs(written, i + 1, ObjSet(acc, written[i][1], written[i][2]))

SyntaxErr == Err("SyntaxError", <<"Unexpected token in JSON">>)
TypeErr(what) == Err("TypeError", <<what>>)

\* an outcome of a computation that may throw
Val(v) == [ok |-> TRUE, v |-> v]
Throw(e) == [ok |-> FALSE, e |-> e]

\* JSON.parse(text): duplicate keys keep the last value
JSONParse(text) ==
    CASE text.j = "object" -> Val(Obj(ParsePairs(text.written, 1, <<>>)))
      [] text.j = "literal" -> Val(text.lit)
      [] OTHER -> Throw(SyntaxErr)

RECURSIVE StringifyPairs(_, _)
RECURSIVE StringifyItems(_, _)
RECURSIVE JSONStringify(_)
\* JSON.stringify(v), as a sequence of tokens
JSONStringify(v) ==
    CASE v.t = "Error" -> <<"{}">>
      [] v.t = "APIError" -> <<"{", "status", ":", v.status, "}">>
      [] v.t = "string" -> <<v.s>>
      [] v.t = "text" -> v.toks
      [] v.t = "number" -> IF v.d = 1 THEN <<ToString(v.n)>>
                           ELSE <<ToString(v.n), "/", ToString(v.d)>>
      [] v.t = "boolean" -> <<IF v.b THEN "true" ELSE "false">>
      [] v.t = "object" -> <<"{">> \o StringifyPairs(v.pairs, 1) \o <<"}">>
      [] v.t = "array" -> <<"[">> \o StringifyItems(v.items, 1) \o <<"]">>
      [] OTHER -> <<"null">>

StringifyItems(items, i) ==
    IF i > Len(items) THEN <<>>
    ELSE JSONStringify(items[i]) \o StringifyItems(items, i + 1)

StringifyPairs(pairs, i) ==
    IF i > Len(pairs) THEN <<>>
    ELSE (IF pairs[i][2].t = "undefined" THEN <<>>
          ELSE <<pairs[i][1], ":">> \o JSONStringify(pairs[i][2]))
         \o StringifyPairs(pairs, i + 1)

\* whether a text carries a token
Mentions(text, tok) == \E i \in 1..Len(text) : text[i] = tok

\* !text for the arguments text of a function call
FalsyText(text) == text.j \in {"absent", "empty"}

-----------------------------------------------------------------------------
(* Agent classes and their constructors *)

BaseAgentClasses ==
    {"DataTransformationAgent", "IntentClassificationAgent",
     "SentimentClassificationAgent", "CitationAgent",
     "JavascriptDeveloperAgent", "JavaScriptCodeInterpreterAgent"}

PlainClasses ==
    {"OpenAIMathAgent", "OpenAIDataTransformationAgent",
     "OpenAIIntentClassificationAgent", "OpenAIJavaScriptAdvancedAnalyticsAgent",
     "OpenAIJavascriptDeveloperAgent", "OpenAIJavaScriptInterpreterAgent"}

Classes == BaseAgentClasses \cup PlainClasses

PipelineClasses == {"JavaScriptCodeInterpreterAgent", "OpenAIJavaScriptAdvancedAnalyticsAgent"}
DeveloperClasses == {"JavascriptDeveloperAgent", "OpenAIJavascriptDeveloperAgent"}
DataTransformationClasses == {"DataTransformationAgent", "OpenAIDataTransformationAgent"}
IntentClasses == {"IntentClassificationAgent", "OpenAIIntentClassificationAgent"}

\* constructor arguments the embedding application may pass
Keys == {"", "sk-test"}
Models == {"", "gpt-4-0613"}
SomeIntent == Obj(<<<<"name", Str("greeting")>>, <<"description", Str("says hello")>>>>)
IntentLists == {Undef, Arr(<<>>), Arr(<<SomeIntent>>)}
SystemMessages == {Undef, Str("custom system message")}

\* the caller-supplied schema of the data transformation agents
ConvertTemperature ==
    [name |-> Str("convertTemperature"),
     description |-> Str("Converts a temperature value from one unit to another."),
     parameters |->
        [type |-> "object",
         properties |-> Obj(<<<<"temperature_number", Str("number")>>,
                              <<"temperature_current_type", Str("string")>>>>),
         required |-> <<Str("temperature_number"), Str("temperature_current_type")>>]]

NoSchema ==
    [name |-> Undef, description |-> Undef,
     parameters |-> [type |-> "none", properties |-> Obj(<<>>), required |-> <<>>]]

DefaultSystemMessage(cls) ==
    CASE cls \in DataTransformationClasses -> Str("You are a data transformation agent.")
      [] cls \in DeveloperClasses -> Str("You are an expert JavaScript developer agent.")
      [] cls = "OpenAIJavaScriptInterpreterAgent" -> Str("You are a JavaScript interpreter agent.")
      [] cls = "OpenAIMathAgent" -> Str("You are a math expert agent.")
      [] cls = "CitationAgent" -> Str("You are a helpful AI Assistant.")
      [] OTHER -> Undef

\* classes whose constructor takes a systemMessage parameter
TakesSystemMessage(cls) == DefaultSystemMessage(cls) # Undef
TakesIntents(cls) == cls \in IntentClasses
TakesFunctionDefinition(cls) == cls \in DataTransformationClasses

NoInstance ==
    [cls |-> "none", apiKey |-> "", model |-> "", systemMessage |-> Undef,
     functionDefinition |-> NoSchema, intents |-> Undef, subAgents |-> {}]

\* BaseAgent.constructor
BaseAgentConstructor(openai_api_key, model) ==
    IF openai_api_key = "" THEN Throw(Err("Error", <<"Missing OpenAI API key">>))
    ELSE IF model = "" THEN Throw(Err("Error", <<"Missing model identifier">>))
    ELSE Val([apiKey |-> openai_api_key, model |-> model])

\* constructors of the classes that do not extend BaseAgent: the fields are
\* assigned as given
PlainConstructor(openai_api_key, model) ==
    Val([apiKey |-> openai_api_key, model |-> model])

SubAgentsOf(cls) ==
    CASE cls = "JavaScriptCodeInterpreterAgent" ->
            {"JavascriptDeveloperAgent", "JavaScriptFunctionCallTransformationAgent"}
      [] cls = "OpenAIJavaScriptAdvancedAnalyticsAgent" ->
            {"OpenAIJavascriptDeveloperAgent", "OpenAIJavaScriptInterpreterAgent"}
      [] OTHER -> {}

\* new cls(openai_api_key, model, ...): the instance, or what the constructor throws
Constructor(cls, openai_api_key, model, systemMessage, intents) ==
    LET base == IF cls \in BaseAgentClasses
                THEN BaseAgentConstructor(openai_api_key, model)
                ELSE PlainConstructor(openai_api_key, model)
    IN IF ~base.ok THEN base
       ELSE IF cls = "IntentClassificationAgent" /\ Falsy(intents)
            THEN Throw(Err("Error", <<"Missing intents array">>))
       ELSE IF cls = "IntentClassificationAgent" /\ intents.items = <<>>
            THEN Throw(Err("Error", <<"Intents array must not be empty">>))
       ELSE Val([cls |-> cls,
                 apiKey |-> base.v.apiKey,
                 model |-> base.v.model,
                 systemMessage |-> IF systemMessage = Undef
                                   THEN DefaultSystemMessage(cls)
                                   ELSE systemMessage,
                 functionDefinition |-> IF TakesFunctionDefinition(cls)
                                        THEN ConvertTemperature ELSE NoSchema,
                 intents |-> intents,
                 subAgents |-> SubAgentsOf(cls)])

-----------------------------------------------------------------------------
(* The completion client: what an awaited create(...) call can produce *)

NoCall == [present |-> FALSE]
Call(name, arguments) == [present |-> TRUE, name |-> name, arguments |-> arguments]
Message(content, function_call) == [content |-> content, function_call |-> function_call]

Reject(e) == [r |-> "reject", e |-> e]
Completion(choices) == [r |-> "ok", choices |-> choices]
Reply(content, function_call) == Completion(<<[message |-> Message(content, function_call)]>>)

\* response.choices[0].message?.content
ContentOf(resp) == resp.choices[1].message.content

\* a check of the name alone
NoFunctionName(resp) ==
    \/ ~resp.choices[1].message.function_call.present
    \/ Falsy(resp.choices[1].message.function_call.name)

\* !name || !arguments of the function call check
NoFunctionCall(resp) ==
    LET fc == resp.choices[1].message.function_call
    IN \/ ~fc.present
       \/ Falsy(fc.name)
       \/ FalsyText(fc.arguments)

\* the serialized response inside an error message
ResponseJson == "<response>"
Elapsed == "ms"

\* the value an await of the call yields up to response.choices[0]: a rejected
\* call throws, an empty choices list makes choices[0].message throw
Awaited(resp) ==
    IF resp.r = "reject" THEN Throw(resp.e)
    ELSE IF Len(resp.choices) = 0
         THEN Throw(TypeErr("Cannot read properties of undefined (reading 'message')"))
    ELSE Val(resp)

-----------------------------------------------------------------------------
(* Code Generation Step: JavascriptDeveloperAgent / OpenAIJavascriptDeveloperAgent *)

GenericFailure == Str("An error occurred while running the agent.")
NoContentError == Err("Error", <<"No content found in response: ", ResponseJson>>)
NoFunctionCallError == Err("Error", <<"No function call found in response: ", ResponseJson>>)

\* a developer run that does not look at the content it returns
DeveloperRunUnchecked(resp) ==
    IF Awaited(resp).ok
    THEN [code |-> ContentOf(resp), language |-> "javascript", success |-> TRUE,
          duration |-> Elapsed]
    ELSE [code |-> Str(""), language |-> "javascript", success |-> FALSE,
          error |-> Text(JSONStringify(Awaited(resp).e)), duration |-> Elapsed]

\* run of the developer agents from the awaited response on
DeveloperRun(resp) ==
    LET a == Awaited(resp)
        thrown == IF ~a.ok THEN a
                  ELSE IF Falsy(ContentOf(resp)) THEN Throw(NoContentError)
                  ELSE Val(ContentOf(resp))
    IN IF thrown.ok
       THEN [code |-> thrown.v, language |-> "javascript", success |-> TRUE,
             duration |-> Elapsed]
       ELSE [code |-> Str(""), language |-> "javascript", success |-> FALSE,
             error |-> Text(JSONStringify(thrown.e)), duration |-> Elapsed]

-----------------------------------------------------------------------------
(* Schema Interpretation Step: OpenAIJavaScriptInterpreterAgent *)

\* the property key a value is converted to when used as obj[v]
PropertyKey(v) ==
    CASE v.t = "string" -> v.s
      [] v.t = "number" -> ToString(v.n)
      [] OTHER -> v.t

\* args.functionArguments.reduce((acc, arg) => { acc[arg.name] = {...}; return acc }, {})
RECURSIVE ReduceProperties(_, _, _)
ReduceProperties(items, i, acc) ==
    IF i > Len(items) THEN acc
    ELSE ReduceProperties(items, i + 1,
            ObjSet(acc, PropertyKey(ObjGet(items[i], "name")),
                   Obj(<<<<"type", ObjGet(items[i], "type")>>,
                         <<"description", ObjGet(items[i], "description")>>>>)))

\* args.functionArguments.map(arg => arg.name)
MapNames(items) == [i \in 1..Len(items) |-> ObjGet(items[i], "name")]

\* a reshape that takes a functionArguments that is no list for an empty list
ReshapeLenient(args) ==
    LET fa == ObjGet(args, "functionArguments")
        items == IF fa.t = "array" THEN fa.items ELSE <<>>
    IN IF IsNullish(args)
       THEN Throw(TypeErr("Cannot read properties of null (reading 'functionName')"))
       ELSE IF \E i \in 1..Len(items) : IsNullish(items[i])
       THEN Throw(TypeErr("Cannot read properties of null (reading 'name')"))
       ELSE Val([name |-> ObjGet(args, "functionName"),
                 description |-> ObjGet(args, "functionDescription"),
                 parameters |->
                    [type |-> "object",
                     properties |-> Obj(ReduceProperties(items, 1, <<>>)),
                     required |-> MapNames(items)]])

\* the reshape of the parsed arguments into a function schema; reading a
\* property of null/undefined and calling reduce on a non-array throw
Reshape(args) ==
    LET fa == ObjGet(args, "functionArguments")
    IN IF IsNullish(args)
       THEN Throw(TypeErr("Cannot read properties of null (reading 'functionName')"))
       ELSE IF fa.t # "array"
       THEN Throw(TypeErr("args.functionArguments.reduce is not a function"))
       ELSE IF \E i \in 1..Len(fa.items) : IsNullish(fa.items[i])
       THEN Throw(TypeErr("Cannot read properties of null (reading 'name')"))
       ELSE Val([name |-> ObjGet(args, "functionName"),
                 description |-> ObjGet(args, "functionDescription"),
                 parameters |->
                    [type |-> "object",
                     properties |-> Obj(ReduceProperties(fa.items, 1, <<>>)),
                     required |-> MapNames(fa.items)]])

\* run of the interpreter agent from the awaited response on
InterpreterRun(resp) ==
    LET a == Awaited(resp)
        parsed == IF ~a.ok THEN a
                  ELSE IF NoFunctionCall(resp) THEN Throw(NoFunctionCallError)
                  ELSE JSONParse(resp.choices[1].message.function_call.arguments)
        json == IF parsed.ok THEN Reshape(parsed.v) ELSE parsed
    IN IF json.ok
       THEN [json |-> json.v, success |-> TRUE, duration |-> Elapsed]
       ELSE [json |-> Obj(<<>>), success |-> FALSE, error |-> json.e,
             duration |-> Elapsed]

-----------------------------------------------------------------------------
(* The pipeline: JavaScriptCodeInterpreterAgent / OpenAIJavaScriptAdvancedAnalyticsAgent *)

\* source texts the code generation model may return, and what each does when
\* called with the given argument values
AddCode == Str("function add(a, b) { return a + b; }")
AnswerCode == Str("function answer() { return 42; }")
FailCode == Str("function fail() { throw new Error('boom'); }")
QuitCode == Str("function quit() { throw 'quit'; }")
ProseCode == Str("Sure! Here is the function you asked for.")
GeneratedCodes == {AddCode, AnswerCode, FailCode, QuitCode, ProseCode}

\* a + b of JavaScript on numbers and undefined
Plus(x, y) == IF IsNum(x) /\ IsNum(y) THEN Num(x.n + y.n) ELSE NaN

\* functionToExecute(...paramValues) where functionToExecute is
\* new Function(functionArgs, `return ${functionCode}(${functionArgs});`)
Evaluate(functionCode, paramNames, paramValues) ==
    LET arg(i) == IF i <= Len(paramValues) THEN paramValues[i] ELSE Undef
    IN CASE functionCode = AddCode -> Val(Plus(arg(1), arg(2)))
         [] functionCode = AnswerCode -> Val(Num(42))
         [] functionCode = FailCode -> Throw(Err("Error", <<"boom">>))
         [] functionCode = QuitCode -> Throw(Str("quit"))
         [] OTHER -> Throw(Err("SyntaxError", <<"Unexpected identifier">>))

\* a conversion that renders numbers and leaves everything else empty
TemplateStringOfNumbers(v) ==
    IF v.t = "number" THEN Text(<<ToString(v.n)>>) ELSE Text(<<>>)

\* `${v}` of JavaScript
TemplateString(v) ==
    CASE v.t = "number" -> Text(<<ToString(v.n)>>)
      [] v.t = "string" -> Text(<<v.s>>)
      [] v.t = "text" -> v
      [] OTHER -> Text(<<v.t>>)

\* Object.keys(interpretedFunction.parameters?.properties || {})
ParamNames(interpretedFunction) == ObjectKeys(interpretedFunction.parameters.properties)

\* an argument list in the key order of the parsed arguments
ParamValuesInArgsOrder(paramNames, args) ==
    IF args.t # "object" THEN [i \in 1..Len(paramNames) |-> Undef]
    ELSE [i \in 1..Len(args.pairs) |-> args.pairs[i][2]]

\* an argument list in which a missing key becomes null
ParamValuesOrNull(paramNames, args) ==
    [i \in 1..Len(paramNames) |->
        IF ObjGet(args, paramNames[i]) = Undef THEN Null ELSE ObjGet(args, paramNames[i])]

\* paramNames.map(name => args[name])
ParamValues(paramNames, args) == [i \in 1..Len(paramNames) |-> ObjGet(args, paramNames[i])]

\* Step D from the awaited response on, up to the function result
Invocation(resp, interpretedFunction, functionCode) ==
    LET a == Awaited(resp)
        parsed == IF ~a.ok THEN [ok |-> FALSE, e |-> a.e, cause |-> "rejected"]
                  ELSE IF NoFunctionCall(resp)
                  THEN [ok |-> FALSE,
                        e |-> Err("Error", <<"No function call found in functionCallResponse: ", ResponseJson>>),
                        cause |-> "no function call"]
                  ELSE LET p == JSONParse(resp.choices[1].message.function_call.arguments)
                       IN IF p.ok THEN p ELSE [ok |-> FALSE, e |-> p.e, cause |-> "parse"]
        paramNames == ParamNames(interpretedFunction)
    IN IF ~parsed.ok THEN parsed
       ELSE IF IsNullish(parsed.v) /\ Len(paramNames) > 0
       THEN [ok |-> FALSE, cause |-> "parse",
             e |-> TypeErr("Cannot read properties of null")]
       ELSE LET paramValues == ParamValues(paramNames, parsed.v)
                r == Evaluate(functionCode, paramNames, paramValues)
            IN IF r.ok
               THEN [ok |-> TRUE, args |-> parsed.v, paramNames |-> paramNames,
                     paramValues |-> paramValues, functionResult |-> r.v]
               ELSE [ok |-> FALSE, e |-> r.e, cause |-> "evaluation"]

\* the catch block of run
PipelineCatch(cls, error) ==
    IF cls = "JavaScriptCodeInterpreterAgent"
    THEN [message |-> GenericFailure, success |-> FALSE,
          error |-> Text(JSONStringify(error)), duration |-> Elapsed]
    ELSE [message |-> GenericFailure, success |-> FALSE,
          error |-> error, duration |-> Elapsed]

\* which class runs Steps B and C for a pipeline class
DeveloperOf(cls) ==
    IF cls = "JavaScriptCodeInterpreterAgent"
    THEN "JavascriptDeveloperAgent" ELSE "OpenAIJavascriptDeveloperAgent"
InterpreterOf(cls) ==
    IF cls = "JavaScriptCodeInterpreterAgent"
    THEN "JavaScriptFunctionCallTransformationAgent" ELSE "OpenAIJavaScriptInterpreterAgent"

\* the fixed schema of the interpreter agent
InterpreterFunction ==
    [name |-> Str("interpreterFunction"),
     description |-> Str("Interprets JavaScript function and returns OpenAI Function Calling Schema."),
     parameters |->
        [type |-> "object",
         properties |-> Obj(<<<<"functionName", Str("string")>>,
                              <<"functionDescription", Str("string")>>,
                              <<"functionArguments", Str("array")>>>>),
         required |-> <<Str("functionName"), Str("functionDescription"),
                        Str("functionArguments")>>]]

System(content) == [role |-> "system", content |-> content]
User(content) == [role |-> "user", content |-> content]
\* a function message that does not carry the content
FunctionWithoutContent(name, content) == [role |-> "function", name |-> name, content |-> Str("")]
Function(name, content) == [role |-> "function", name |-> name, content |-> content]

Request(s, by, messages, functions, temperature) ==
    [step |-> s, by |-> by, model |-> inst.model, messages |-> messages,
     functions |-> functions, temperature |-> temperature]

MetaPromptSystem == Str("You are an advanced Javascript Analytics agent and a prompt engineering expert.")
InvocationSystem == Str("You must use your functions to accomplish the task at hand.")
ExplanationSystem(cls) ==
    IF cls = "JavaScriptCodeInterpreterAgent"
    THEN Str("Do not show code examples to the user, just return the requested result.")
    ELSE Str("You are an advanced Javascript Analytics agent.")

RequestA(userMessage) ==
    Request("A", inst.cls, <<System(MetaPromptSystem), User(userMessage)>>, <<>>, "0")
RequestB(prompt) ==
    Request("B", DeveloperOf(inst.cls),
            <<System(DefaultSystemMessage(DeveloperOf(inst.cls))), User(prompt)>>, <<>>, "0.2")
RequestC(functionCode) ==
    Request("C", InterpreterOf(inst.cls),
            <<System(DefaultSystemMessage("OpenAIJavaScriptInterpreterAgent")), User(functionCode)>>,
            <<InterpreterFunction>>, "0")
RequestD(interpretedFunction) ==
    Request("D", inst.cls, <<System(InvocationSystem), User(input.userMessage)>>,
            <<interpretedFunction>>, "0")
RequestE(interpretedFunction, functionResult) ==
    Request("E", inst.cls,
            <<System(ExplanationSystem(inst.cls)), User(input.userMessage),
              Function(interpretedFunction.name, TemplateString(functionResult))>>,
            <<>>, "0")

-----------------------------------------------------------------------------
(* The agents with one request per run *)

InterpreterClasses == {"OpenAIJavaScriptInterpreterAgent"}
SingleShotClasses ==
    DataTransformationClasses \cup IntentClasses \cup DeveloperClasses
        \cup InterpreterClasses \cup {"SentimentClassificationAgent", "CitationAgent"}

\* a read of a field without a default
CoalesceNothing(v, d) == v

\* v ?? d of JavaScript
Coalesce(v, d) == IF IsNullish(v) THEN d ELSE v

\* the checks run makes before its try block: what they throw, if anything
RunGuard(cls, userMessage, context) ==
    IF cls \in {"DataTransformationAgent", "IntentClassificationAgent", "CitationAgent"}
          /\ Falsy(userMessage)
    THEN Throw(Err("Error", <<"Missing user message">>))
    ELSE IF cls = "CitationAgent" /\ Falsy(context)
    THEN Throw(Err("Error", <<"Missing context">>))
    ELSE Val(userMessage)

RECURSIVE IntentLines(_, _)
\* this.intents.map(intent => `${intent.name}: ${intent.description}\n`).join(', ')
IntentLines(items, i) ==
    IF i > Len(items) THEN <<>>
    ELSE TemplateString(ObjGet(items[i], "name")).toks \o <<": ">>
            \o TemplateString(ObjGet(items[i], "description")).toks
            \o IntentLines(items, i + 1)

FunctionSchema(name) ==
    [name |-> Str(name), description |-> Str("fixed schema"),
     parameters |-> [type |-> "object", properties |-> Obj(<<>>), required |-> <<>>]]

\* the request a run builds inside its try block, or what building it throws
SingleRequest(self, userMessage, context) ==
    LET cls == self.cls
        mk(messages, functions, temperature) ==
            Val([step |-> "single", by |-> cls, model |-> self.model,
                 messages |-> messages, functions |-> functions,
                 temperature |-> temperature])
    IN CASE cls \in DataTransformationClasses ->
              mk(<<System(self.systemMessage), User(userMessage)>>,
                 <<self.functionDefinition>>, "0")
         [] cls \in DeveloperClasses ->
              mk(<<System(self.systemMessage), User(userMessage)>>, <<>>, "0.2")
         [] cls \in InterpreterClasses ->
              mk(<<System(self.systemMessage), User(userMessage)>>,
                 <<InterpreterFunction>>, "0")
         [] cls \in IntentClasses ->
              IF self.intents.t # "array"
              THEN Throw(TypeErr("Cannot read properties of undefined (reading 'map')"))
              ELSE mk(<<System(Text(<<"You are an Intent Classification Agent.">>
                                     \o IntentLines(self.intents.items, 1))),
                        User(userMessage)>>,
                      <<FunctionSchema("intentClassificationFunction")>>, "0")
         [] cls = "SentimentClassificationAgent" ->
              mk(<<System(Str("You are a Sentiment Classification Agent.")),
                   User(userMessage)>>,
                 <<FunctionSchema("sentimentClassificationFunction")>>, "0")
         [] OTHER ->
              mk(<<System(self.systemMessage), User(userMessage),
                   Function(Str("context"), context)>>,
                 <<FunctionSchema("citation")>>, "0")

\* the awaited response up to the parsed arguments of its function call
ParsedCall(resp) ==
    LET a == Awaited(resp)
    IN IF ~a.ok THEN a
       ELSE IF NoFunctionCall(resp) THEN Throw(NoFunctionCallError)
       ELSE JSONParse(resp.choices[1].message.function_call.arguments)

\* reading a property of the parsed arguments throws when they are null
Readable(parsed) ==
    IF parsed.ok /\ IsNullish(parsed.v)
    THEN Throw(TypeErr("Cannot read properties of null"))
    ELSE parsed

ClassificationRecord(cls, name, why, confidentPercentage, successfullyClassified) ==
    CASE cls = "SentimentClassificationAgent" ->
            Obj(<<<<"sentiment", Obj(<<<<"type", name>>,
                    <<"whyWasThisSentimentChosen", why>>,
                    <<"confidentPercentage", confidentPercentage>>,
                    <<"successfullyClassified", successfullyClassified>>>>)>>>>)
      [] cls = "IntentClassificationAgent" ->
            Obj(<<<<"intent", Obj(<<<<"name", name>>,
                    <<"whyWasThisIntentChosen", why>>,
                    <<"confidentPercentage", confidentPercentage>>,
                    <<"successfullyClassified", successfullyClassified>>>>)>>>>)
      [] OTHER ->
            Obj(<<<<"intent", Obj(<<<<"name", name>>,
                    <<"description", why>>,
                    <<"confidentPercentage", confidentPercentage>>,
                    <<"successfullyClassified", successfullyClassified>>>>)>>>>)

\* every agent reading the argument the intent agents read
NameKeyOfIntent(cls) == "intentName"

\* the names of the arguments the classification agents read
NameKey(cls) == IF cls = "SentimentClassificationAgent" THEN "sentimentType" ELSE "intentName"
WhyKey(cls) ==
    CASE cls = "SentimentClassificationAgent" -> "whyWasThisSentimentChosen"
      [] cls = "IntentClassificationAgent" -> "whyWasThisIntentChosen"
      [] OTHER -> "intentDescription"
FlagKey(cls) ==
    IF cls = "SentimentClassificationAgent"
    THEN "successfullyClassified" ELSE "intentSuccessfullyClassified"

\* a run that reports the outcome but drops the parsed arguments
DataTransformationRunEmpty(cls, resp) ==
    [json |-> Obj(<<>>), success |-> ParsedCall(resp).ok, duration |-> Elapsed]

\* a run that fails on arguments that are not an object with the keys the
\* temperature schema requires
DataTransformationRunValidating(cls, resp) ==
    LET args == ParsedCall(resp)
        valid == /\ args.ok /\ args.v.t = "object"
                 /\ ObjGet(args.v, "temperature_number") # Undef
                 /\ ObjGet(args.v, "temperature_current_type") # Undef
    IN IF valid
       THEN [json |-> args.v, success |-> TRUE, duration |-> Elapsed]
       ELSE [json |-> Obj(<<>>), success |-> FALSE,
             error |-> Str("invalid arguments"), duration |-> Elapsed]

\* run of the data transformation agents from the awaited response on
DataTransformationRun(cls, resp) ==
    LET args == ParsedCall(resp)
    IN IF cls = "DataTransformationAgent"
       THEN IF args.ok
            THEN [json |-> args.v, success |-> TRUE, duration |-> Elapsed]
            ELSE [json |-> Obj(<<>>), success |-> FALSE,
                  error |-> Text(JSONStringify(args.e)), duration |-> Elapsed]
       ELSE IF args.ok
            THEN [json |-> args.v, success |-> TRUE]
            ELSE [json |-> Obj(<<>>), success |-> FALSE, error |-> args.e]

\* a run whose success flag repeats the classification flag of the model
ClassificationRunByFlag(cls, resp) ==
    LET args == Readable(ParsedCall(resp))
        flag == IF args.ok THEN ObjGet(args.v, FlagKey(cls)) ELSE Bool(FALSE)
    IN [json |-> ClassificationRecord(cls, Null, Null, Num(0), Coalesce(flag, Bool(FALSE))),
        success |-> (flag = Bool(TRUE)), duration |-> Elapsed]

\* run of the intent and sentiment agents from the awaited response on
ClassificationRun(cls, resp) ==
    LET args == Readable(ParsedCall(resp))
    IN IF args.ok
       THEN [json |-> ClassificationRecord(cls,
                         Coalesce(ObjGet(args.v, NameKey(cls)), Null),
                         Coalesce(ObjGet(args.v, WhyKey(cls)), Null),
                         Coalesce(ObjGet(args.v, "confidentPercentage"), Num(0)),
                         Coalesce(ObjGet(args.v, FlagKey(cls)), Null)),
             success |-> TRUE, duration |-> Elapsed]
       ELSE [json |-> ClassificationRecord(cls, Null, Null, Num(0), Bool(FALSE)),
             success |-> FALSE, duration |-> Elapsed]

\* run of the citation agent from the awaited response on
CitationRun(context, resp) ==
    LET args == Readable(ParsedCall(resp))
    IN IF args.ok
       THEN [message |-> ObjGet(args.v, "responseToUsersMessage"),
             citation |-> Obj(<<<<"filename", ObjGet(args.v, "filename")>>,
                                <<"pageNumber", ObjGet(args.v, "pageNumber")>>,
                                <<"explanationOfWhyThisSourceWasChosen",
                                  ObjGet(args.v, "explanationOfWhyThisSourceWasChosen")>>>>),
             context |-> context, success |-> TRUE, duration |-> Elapsed]
       ELSE [message |-> GenericFailure, context |-> context, success |-> FALSE,
             error |-> Text(JSONStringify(args.e)), duration |-> Elapsed]

\* what the catch block of run returns for an error thrown before the await
SingleCatch(cls, context, e) ==
    CASE cls \in IntentClasses \cup {"SentimentClassificationAgent"} ->
            ClassificationRun(cls, Reject(e))
      [] cls = "CitationAgent" -> CitationRun(context, Reject(e))
      [] cls \in DataTransformationClasses -> DataTransformationRun(cls, Reject(e))
      [] cls \in DeveloperClasses -> DeveloperRun(Reject(e))
      [] OTHER -> InterpreterRun(Reject(e))

\* the result of run once the response is in
SingleResult(cls, context, resp) ==
    CASE cls \in IntentClasses \cup {"SentimentClassificationAgent"} ->
            ClassificationRun(cls, resp)
      [] cls = "CitationAgent" -> CitationRun(context, resp)
      [] cls \in DataTransformationClasses -> DataTransformationRun(cls, resp)
      [] cls \in DeveloperClasses -> DeveloperRun(resp)
      [] OTHER -> InterpreterRun(resp)

-----------------------------------------------------------------------------
(* The math agent: OpenAIMathAgent *)

RECURSIVE Gcd(_, _)
Gcd(a, b) == IF b = 0 THEN a ELSE Gcd(b, a % b)
Abs(n) == IF n < 0 THEN -n ELSE n

\* the number n/d in lowest terms (d # 0)
Rat(n, d) ==
    LET g == Gcd(Abs(n), Abs(d))
        sign == IF d < 0 THEN -1 ELSE 1
    IN [t |-> "number", n |-> sign * (n \div g), d |-> sign * (d \div g)]

\* Number(v) of JavaScript
ToNumber(v) ==
    CASE v.t = "number" -> v
      [] v.t = "string" ->
            IF v.s = "" THEN Num(0)
            ELSE IF v.s = "2" THEN Num(2)
            ELSE NaN
      [] v.t = "boolean" -> IF v.b THEN Num(1) ELSE Num(0)
      [] v.t = "null" -> Num(0)
      [] OTHER -> NaN

\* OpenAIMathAgent.add
add(input1, input2) ==
    IF IsNum(input1) /\ IsNum(input2)
    THEN Rat(input1.n * input2.d + input2.n * input1.d, input1.d * input2.d)
    ELSE NaN

\* a subtract with its operands exchanged
SubtractMirrored(input1, input2) ==
    IF IsNum(input1) /\ IsNum(input2)
    THEN Rat(input2.n * input1.d - input1.n * input2.d, input1.d * input2.d)
    ELSE NaN

\* OpenAIMathAgent.subtract
subtract(input1, input2) ==
    IF IsNum(input1) /\ IsNum(input2)
    THEN Rat(input1.n * input2.d - input2.n * input1.d, input1.d * input2.d)
    ELSE NaN

\* OpenAIMathAgent.multiply
multiply(input1, input2) ==
    IF IsNum(input1) /\ IsNum(input2)
    THEN Rat(input1.n * input2.n, input1.d * input2.d)
    ELSE NaN

\* OpenAIMathAgent.divide: the quotient, or what it throws
divide(input1, input2) ==
    IF IsNum(input2) /\ input2.n = 0
    THEN Throw(Err("Error", <<"Cannot divide by zero">>))
    ELSE IF IsNum(input1) /\ IsNum(input2)
    THEN Val(Rat(input1.n * input2.d, input1.d * input2.n))
    ELSE Val(NaN)

MathFailure(error) ==
    [json |-> Obj(<<>>), success |-> FALSE, error |-> error, duration |-> Elapsed]

\* a mathOperation without the checks of its input: a missing field is
\* converted by Number(...) and an unknown operation is taken for add
mathOperationUnchecked(mathInput) ==
    IF IsNullish(mathInput)
    THEN Throw(TypeErr("Cannot read properties of null (reading 'operation')"))
    ELSE
    LET operation == ObjGet(mathInput, "operation")
        input1 == ToNumber(ObjGet(mathInput, "input1"))
        input2 == ToNumber(ObjGet(mathInput, "input2"))
        ok(result) == Val([json |-> Obj(<<<<"result", result>>>>), success |-> TRUE,
                           duration |-> Elapsed])
    IN CASE operation = Str("subtract") -> ok(subtract(input1, input2))
         [] operation = Str("multiply") -> ok(multiply(input1, input2))
         [] operation = Str("divide") ->
               LET q == divide(input1, input2)
               IN IF q.ok THEN ok(q.v) ELSE Val(MathFailure(q.e))
         [] OTHER -> ok(add(input1, input2))

\* a mathOperation that takes every falsy field for a missing one and looks
\* at the operands first
mathOperationFalsyFields(mathInput) ==
    IF IsNullish(mathInput)
    THEN Throw(TypeErr("Cannot read properties of null (reading 'operation')"))
    ELSE
    LET operation == ObjGet(mathInput, "operation")
        input1 == ToNumber(ObjGet(mathInput, "input1"))
        input2 == ToNumber(ObjGet(mathInput, "input2"))
        ok(result) == Val([json |-> Obj(<<<<"result", result>>>>), success |-> TRUE,
                           duration |-> Elapsed])
    IN IF Falsy(ObjGet(mathInput, "input1"))
       THEN Val(MathFailure(Text(<<"No input1 found in math input: ">>
                                   \o JSONStringify(mathInput))))
       ELSE IF Falsy(ObjGet(mathInput, "input2"))
       THEN Val(MathFailure(Text(<<"No input2 found in math input: ">>
                                   \o JSONStringify(mathInput))))
       ELSE IF Falsy(operation)
       THEN Val(MathFailure(Text(<<"No operation found in math input: ">>
                                   \o JSONStringify(mathInput))))
       ELSE CASE operation = Str("add") -> ok(add(input1, input2))
              [] operation = Str("subtract") -> ok(subtract(input1, input2))
              [] operation = Str("multiply") -> ok(multiply(input1, input2))
              [] operation = Str("divide") ->
                    LET q == divide(input1, input2)
                    IN IF q.ok THEN ok(q.v) ELSE Val(MathFailure(q.e))
              [] OTHER ->
                    Val(MathFailure(Text(<<"Invalid operation \"">>
                            \o TemplateString(operation).toks \o <<"\"">>)))

\* OpenAIMathAgent.mathOperation: the result it returns, or what it throws
mathOperation(mathInput) ==
    IF IsNullish(mathInput)
    THEN Throw(TypeErr("Cannot read properties of null (reading 'operation')"))
    ELSE
    LET operation == ObjGet(mathInput, "operation")
        input1 == ToNumber(ObjGet(mathInput, "input1"))
        input2 == ToNumber(ObjGet(mathInput, "input2"))
        ok(result) == Val([json |-> Obj(<<<<"result", result>>>>), success |-> TRUE,
                           duration |-> Elapsed])
    IN IF IsNullish(operation)
       THEN Val(MathFailure(Text(<<"No operation found in math input: ">>
                                   \o JSONStringify(mathInput))))
       ELSE IF IsNullish(ObjGet(mathInput, "input1"))
       THEN Val(MathFailure(Text(<<"No input1 found in math input: ">>
                                   \o JSONStringify(mathInput))))
       ELSE IF IsNullish(ObjGet(mathInput, "input2"))
       THEN Val(MathFailure(Text(<<"No input2 found in math input: ">>
                                   \o JSONStringify(mathInput))))
       ELSE CASE operation = Str("add") -> ok(add(input1, input2))
              [] operation = Str("subtract") -> ok(subtract(input1, input2))
              [] operation = Str("multiply") -> ok(multiply(input1, input2))
              [] operation = Str("divide") ->
                    LET q == divide(input1, input2)
                    IN IF q.ok THEN ok(q.v) ELSE Val(MathFailure(q.e))
              [] OTHER ->
                    Val(MathFailure(Text(<<"Invalid operation \"">>
                            \o TemplateString(operation).toks \o <<"\"">>)))

\* a failure result of an agent as the object JSON.stringify sees
ResultObject(r) ==
    Obj((IF "code" \in DOMAIN r
         THEN <<<<"code", r.code>>, <<"language", Str(r.language)>>>>
         ELSE <<<<"json", r.json>>>>)
        \o <<<<"success", Bool(r.success)>>,
              <<"error", IF "error" \in DOMAIN r THEN r.error ELSE Undef>>,
              <<"duration", Str(Elapsed)>>>>)

\* the catch block of OpenAIMathAgent.run
MathCatch(error) == MathFailure(Text(JSONStringify(error)))

MathInputFunction == FunctionSchema("mathInputFunction")

\* the routing part of run, from the awaited response up to the call of
\* this.dataTransformation: the user message handed on, or what is thrown
MathRouting(resp) ==
    LET a == Awaited(resp)
    IN IF ~a.ok THEN a
       ELSE IF NoFunctionCall(resp) THEN Throw(NoFunctionCallError)
       ELSE LET args == JSONParse(resp.choices[1].message.function_call.arguments)
                functionName == resp.choices[1].message.function_call.name
            IN IF ~args.ok THEN args
               ELSE IF functionName # Str("dataTransformation")
               THEN Throw(Err("Error", <<"Function name \"", functionName.s,
                                         "\" does not match expected function name \"dataTransformation\"">>))
               ELSE IF IsNullish(args.v)
               THEN Throw(TypeErr("Cannot read properties of null (reading 'userMessage')"))
               ELSE Val(ObjGet(args.v, "userMessage"))

\* OpenAIMathAgent.dataTransformation from the sub-agent's response on
MathDataTransformation(resp) ==
    LET response == DataTransformationRun("OpenAIDataTransformationAgent", resp)
    IN IF ~response.success
       THEN MathFailure(Err("Error", <<"Error running data transformation agent: ">>
                                        \o JSONStringify(ResultObject(response))))
       ELSE [json |-> response.json, success |-> response.success, duration |-> Elapsed]

\* a run that hands the json of a failed extraction to mathOperation
MathCompletionEager(dataTransformationResult) ==
    LET mathInputs == dataTransformationResult.json
        mathOperationResult == mathOperation(mathInputs)
    IN [called |-> TRUE, mathInputs |-> mathInputs,
        mathOperationResult |-> mathOperationResult,
        result |->
           IF ~mathOperationResult.ok THEN MathCatch(mathOperationResult.e)
           ELSE IF ~mathOperationResult.v.success
           THEN MathCatch(Err("Error", <<"Error running math operation agent: ">>
                   \o JSONStringify(ResultObject(mathOperationResult.v))))
           ELSE [json |-> mathOperationResult.v.json, success |-> TRUE,
                 duration |-> Elapsed]]

\* run from the result of this.dataTransformation on: the math inputs, the
\* outcome of mathOperation, and the result run returns
MathCompletion(dataTransformationResult) ==
    IF ~dataTransformationResult.success
    THEN [called |-> FALSE,
          result |-> MathCatch(Err("Error", <<"Error running data transformation agent: ">>
                        \o JSONStringify(ResultObject(dataTransformationResult))))]
    ELSE LET mathInputs == dataTransformationResult.json
             mathOperationResult == mathOperation(mathInputs)
         IN [called |-> TRUE, mathInputs |-> mathInputs,
             mathOperationResult |-> mathOperationResult,
             result |->
                IF ~mathOperationResult.ok THEN MathCatch(mathOperationResult.e)
                ELSE IF ~mathOperationResult.v.success
                THEN MathCatch(Err("Error", <<"Error running math operation agent: ">>
                        \o JSONStringify(ResultObject(mathOperationResult.v))))
                ELSE [json |-> mathOperationResult.v.json, success |-> TRUE,
                      duration |-> Elapsed]]

-----------------------------------------------------------------------------
(* What the completion client may answer at each step *)

\* answers that carry neither usable content nor a function call
FailureReplies ==
    {Reject(ApiErr), Completion(<<>>), Reply(Undef, NoCall), Reply(Str(""), NoCall)}

ContentReplies(contents) == {Reply(c, NoCall) : c \in contents}

\* function calls that the check treats as missing
PartialCalls(text) ==
    {Reply(Null, Call(Undef, text)), Reply(Null, Call(Str(""), text)),
     Reply(Null, Call(Str("f"), NoText)), Reply(Null, Call(Str("f"), EmptyText))}

\* sequences over S of length at most n
RECURSIVE SeqsUpTo(_, _)
SeqsUpTo(S, n) ==
    IF n = 0 THEN {<<>>}
    ELSE LET shorter == SeqsUpTo(S, n - 1)
         IN shorter \cup {Append(q, x) : q \in shorter, x \in S}

ArgNames == {"a", "b"}
ArgValues == {Num(1), Num(2)}

FunctionArgument(name) ==
    Obj(<<<<"name", Str(name)>>, <<"type", Str("number")>>,
          <<"description", Str("an operand")>>>>)

\* an item without a name: the items of interpreterFunction require no field
NamelessArgument ==
    Obj(<<<<"type", Str("number")>>, <<"description", Str("an operand")>>>>)

\* the functionArguments values the interpreter model may return
FunctionArgumentLists ==
    {Arr(q) : q \in SeqsUpTo({FunctionArgument(n) : n \in ArgNames}, MaxArgs)}
        \cup {Arr(<<NamelessArgument>>), Arr(<<Null>>), Null, Str("a, b"), Undef}

InterpreterText(fa) ==
    ObjText(<<<<"functionName", Str("add")>>,
              <<"functionDescription", Str("adds two numbers")>>,
              <<"functionArguments", fa>>>>)

InterpreterTexts ==
    {InterpreterText(fa) : fa \in FunctionArgumentLists} \cup {Malformed, LitText(Null)}

\* the arguments texts the model may return in Step D
ArgumentTexts ==
    {ObjText(w) : w \in SeqsUpTo(ArgNames \X ArgValues, MaxPairs)}
        \cup {Malformed, LitText(Null)}

RepliesA == FailureReplies \cup ContentReplies({Str("Write a function that adds two numbers.")})
RepliesB == FailureReplies \cup ContentReplies(GeneratedCodes)
RepliesC ==
    FailureReplies \cup PartialCalls(InterpreterText(Arr(<<>>)))
        \cup {Reply(Null, Call(Str("interpreterFunction"), t)) : t \in InterpreterTexts}
RepliesD ==
    FailureReplies \cup PartialCalls(ObjText(<<>>))
        \cup {Reply(Null, Call(Str("add"), t)) : t \in ArgumentTexts}
RepliesE == FailureReplies \cup ContentReplies({Str("The result is 3.")})

UserMessages == {Str(""), Str("add 1 and 2")}
Contexts == {Str(""), Str("report.pdf, page 3: revenue grew")}

\* a key that is absent, or present with one of the values
OptPairs(k, vals) == {<<>>} \cup {<<<<k, v>>>> : v \in vals}

ClassificationTexts(cls) ==
    {ObjText(n \o w \o c \o f) :
        n \in OptPairs(NameKey(cls), {Str("greeting"), Null}),
        w \in OptPairs(WhyKey(cls), {Str("the user says hello")}),
        c \in OptPairs("confidentPercentage", {Num(95), Null}),
        f \in OptPairs(FlagKey(cls), {Bool(TRUE), Bool(FALSE)})}
      \cup {Malformed, LitText(Null)}

CitationTexts ==
    {ObjText(m \o f \o n \o e) :
        m \in OptPairs("responseToUsersMessage", {Str("Revenue grew.")}),
        f \in OptPairs("filename", {Str("report.pdf")}),
        n \in OptPairs("pageNumber", {Num(3)}),
        e \in OptPairs("explanationOfWhyThisSourceWasChosen", {Str("it states the revenue")})}
      \cup {Malformed, LitText(Null)}

TemperatureTexts ==
    {ObjText(n \o u) :
        n \in OptPairs("temperature_number", {Num(2), Str("2")}),
        u \in OptPairs("temperature_current_type", {Str("celsius")})}
      \cup {ObjText(<<<<"temperature_number", Num(1)>>, <<"temperature_number", Num(2)>>>>),
            Malformed, LitText(Null), LitText(Num(1)), LitText(Arr(<<Num(1)>>))}

\* the answers a single-request agent of the class may get
SingleReplies(cls) ==
    CASE cls \in DeveloperClasses -> RepliesB
      [] cls \in InterpreterClasses -> RepliesC
      [] cls \in DataTransformationClasses ->
            FailureReplies \cup PartialCalls(ObjText(<<>>))
                \cup {Reply(Null, Call(Str("convertTemperature"), t)) : t \in TemperatureTexts}
      [] cls \in IntentClasses ->
            FailureReplies \cup PartialCalls(ObjText(<<>>))
                \cup {Reply(Null, Call(Str("intentClassificationFunction"), t)) :
                        t \in ClassificationTexts(cls)}
      [] cls = "SentimentClassificationAgent" ->
            FailureReplies \cup PartialCalls(ObjText(<<>>))
                \cup {Reply(Null, Call(Str("sentimentClassificationFunction"), t)) :
                        t \in ClassificationTexts(cls)}
      [] cls = "CitationAgent" ->
            FailureReplies \cup PartialCalls(ObjText(<<>>))
                \cup {Reply(Null, Call(Str("citation"), t)) : t \in CitationTexts}
      [] OTHER -> {}

AllSingleReplies == UNION {SingleReplies(cls) : cls \in SingleShotClasses}

\* the math inputs the extraction model may return
OperandValues == {Num(n) : n \in (-MaxOperand)..MaxOperand} \cup {Str("2"), Str("two"), Null}
Operations ==
    {Str(o) : o \in {"add", "subtract", "multiply", "divide", "modulo", ""}} \cup {Null}

MathInputTexts ==
    {ObjText(a \o b \o o) :
        a \in OptPairs("input1", OperandValues),
        b \in OptPairs("input2", OperandValues),
        o \in OptPairs("operation", Operations)}
      \cup {Malformed, LitText(Null)}

RoutingTexts ==
    {ObjText(<<<<"userMessage", Str("what is 1 plus 2")>>>>), ObjText(<<>>),
     Malformed, LitText(Null)}

RepliesRoute ==
    FailureReplies \cup PartialCalls(ObjText(<<>>))
        \cup {Reply(Null, Call(Str(n), t)) :
                n \in {"dataTransformation", "mathOperation"}, t \in RoutingTexts}

RepliesExtract ==
    FailureReplies \cup PartialCalls(ObjText(<<>>))
        \cup {Reply(Null, Call(Str("mathInputFunction"), t)) : t \in MathInputTexts}

-----------------------------------------------------------------------------
(* State *)

NoError == [t |-> "none"]
NoRet == [kind |-> "none"]
Returned(r) == [kind |-> "returned", value |-> r]
Escaped(e) == [kind |-> "rejected", error |-> e]
NoFailure == [step |-> "", cause |-> ""]
NoInput == [userMessage |-> Undef, context |-> Undef]
NoLoc ==
    [prompt |-> Undef, functionCode |-> Undef, interpretedFunction |-> NoSchema,
     args |-> Undef, paramNames |-> <<>>, paramValues |-> <<>>,
     functionResult |-> Undef,
     mathCalled |-> FALSE, mathInputs |-> Undef, mathOperationResult |-> Val(Undef)]

\* the names that hold live instances, and the run calls that overlap
Holders == {"x", "y"}
Invocations == {"first", "second"}

\* a run call that has not been made
NoRun ==
    [pc |-> "idle", step |-> "", input |-> NoInput, loc |-> NoLoc, issued |-> <<>>,
     received |-> <<>>, accepted |-> <<>>, failedAt |-> NoFailure, ret |-> NoRet]

Init ==
    /\ agents = [h \in Holders |-> NoInstance]
    /\ target = [i \in Invocations |-> ""]
    /\ runs = [i \in Invocations |-> NoRun]
    /\ inst = NoInstance
    /\ ctorErr = NoError
    /\ pc = "idle"
    /\ step = ""
    /\ input = NoInput
    /\ loc = NoLoc
    /\ issued = <<>>
    /\ received = <<>>
    /\ accepted = <<>>
    /\ failedAt = NoFailure
    /\ ret = NoRet

\* new cls(...)
Construct(cls, openai_api_key, model, systemMessage, intents) ==
    /\ UNCHANGED concVars
    /\ pc = "idle"
    /\ inst = NoInstance
    /\ ctorErr = NoError
    /\ LET made == Constructor(cls, openai_api_key, model, systemMessage, intents)
       IN /\ inst' = IF made.ok THEN made.v ELSE NoInstance
          /\ ctorErr' = IF made.ok THEN NoError ELSE made.e
    /\ UNCHANGED <<pc, step, input, loc, issued, received, accepted, failedAt, ret>>

\* a run that sends the failed step's request again instead of returning
FailAndRetry(s, cause, result) ==
    /\ pc' = "await"
    /\ step' = s
    /\ failedAt' = [step |-> s, cause |-> cause]
    /\ issued' = Append(issued, issued[Len(issued)])
    /\ UNCHANGED <<inst, ctorErr, input, loc, accepted, ret>>

\* the run takes its catch block (or ends in failure) at step s
Fail(s, cause, result) ==
    /\ pc' = "done"
    /\ step' = ""
    /\ failedAt' = [step |-> s, cause |-> cause]
    /\ ret' = Returned(result)
    /\ UNCHANGED <<inst, ctorErr, input, loc, issued, accepted>>

\* a run that sends the next step's request twice
ProceedAskingTwice(s, next, request, newLoc) ==
    /\ pc' = "await"
    /\ step' = next
    /\ accepted' = Append(accepted, s)
    /\ issued' = Append(Append(issued, request), request)
    /\ loc' = newLoc
    /\ UNCHANGED <<inst, ctorErr, input, failedAt, ret>>

\* step s accepted its response and the next request goes out
Proceed(s, next, request, newLoc) ==
    /\ pc' = "await"
    /\ step' = next
    /\ accepted' = Append(accepted, s)
    /\ issued' = Append(issued, request)
    /\ loc' = newLoc
    /\ UNCHANGED <<inst, ctorErr, input, failedAt, ret>>

\* the last step accepted its response and run returns
Finish(s, result) ==
    /\ pc' = "done"
    /\ step' = ""
    /\ accepted' = Append(accepted, s)
    /\ ret' = Returned(result)
    /\ UNCHANGED <<inst, ctorErr, input, loc, issued, failedAt>>

AwaitCause(resp) == IF resp.r = "reject" THEN "rejected" ELSE "no choices"

\* agent.run(userMessage) on a pipeline instance: up to the first await
PipelineRun(userMessage) ==
    /\ UNCHANGED concVars
    /\ pc = "idle"
    /\ inst.cls \in PipelineClasses
    /\ pc' = "await"
    /\ step' = "A"
    /\ input' = [userMessage |-> userMessage, context |-> Undef]
    /\ issued' = <<RequestA(userMessage)>>
    /\ UNCHANGED <<inst, ctorErr, loc, received, accepted, failedAt, ret>>

\* Step A's response arrives
PipelineStepA(resp) ==
    /\ UNCHANGED concVars
    /\ pc = "await" /\ step = "A" /\ inst.cls \in PipelineClasses
    /\ received' = Append(received, resp)
    /\ LET a == Awaited(resp)
       IN IF ~a.ok
          THEN Fail("A", AwaitCause(resp), PipelineCatch(inst.cls, a.e))
          ELSE IF Falsy(ContentOf(resp))
          THEN Fail("A", "empty completion", PipelineCatch(inst.cls, NoContentError))
          ELSE Proceed("A", "B", RequestB(ContentOf(resp)),
                       [loc EXCEPT !.prompt = ContentOf(resp)])

\* a pipeline that goes on whatever the sub-agent reported
SubAgentUnchecked(result) == TRUE

\* whether the pipeline goes on after a sub-agent's result
SubAgentSucceeded(result) == result.success

\* Step B: the developer agent's response arrives and its result is checked
PipelineStepB(resp) ==
    /\ UNCHANGED concVars
    /\ pc = "await" /\ step = "B" /\ inst.cls \in PipelineClasses
    /\ received' = Append(received, resp)
    /\ LET functionResponse == DeveloperRun(resp)
       IN IF ~SubAgentSucceeded(functionResponse)
          THEN Fail("B", "code generation failed",
                    PipelineCatch(inst.cls,
                        Err("Error", <<"Error generating function: ">>
                                       \o JSONStringify(ResultObject(functionResponse)))))
          ELSE Proceed("B", "C", RequestC(functionResponse.code),
                       [loc EXCEPT !.functionCode = functionResponse.code])

\* Step C: the interpreter agent's response arrives and its result is checked
PipelineStepC(resp) ==
    /\ UNCHANGED concVars
    /\ pc = "await" /\ step = "C" /\ inst.cls \in PipelineClasses
    /\ received' = Append(received, resp)
    /\ LET interpreterResponse == InterpreterRun(resp)
       IN IF ~SubAgentSucceeded(interpreterResponse)
          THEN Fail("C", "interpretation failed",
                    PipelineCatch(inst.cls,
                        Err("Error", <<"Error interpreting function: ">>
                                       \o JSONStringify(ResultObject(interpreterResponse)))))
          ELSE Proceed("C", "D", RequestD(interpreterResponse.json),
                       [loc EXCEPT !.interpretedFunction = interpreterResponse.json])

\* Step D: the function call arrives, the generated function is evaluated
PipelineStepD(resp) ==
    /\ UNCHANGED concVars
    /\ pc = "await" /\ step = "D" /\ inst.cls \in PipelineClasses
    /\ received' = Append(received, resp)
    /\ LET r == Invocation(resp, loc.interpretedFunction, loc.functionCode)
       IN IF ~r.ok
          THEN Fail("D", IF r.cause = "rejected" THEN AwaitCause(resp) ELSE r.cause,
                    PipelineCatch(inst.cls, r.e))
          ELSE Proceed("D", "E", RequestE(loc.interpretedFunction, r.functionResult),
                       [loc EXCEPT !.args = r.args, !.paramNames = r.paramNames,
                                   !.paramValues = r.paramValues,
                                   !.functionResult = r.functionResult])

\* Step E: the explanation arrives and run returns
PipelineStepE(resp) ==
    /\ UNCHANGED concVars
    /\ pc = "await" /\ step = "E" /\ inst.cls \in PipelineClasses
    /\ received' = Append(received, resp)
    /\ LET a == Awaited(resp)
       IN IF ~a.ok
          THEN Fail("E", AwaitCause(resp), PipelineCatch(inst.cls, a.e))
          ELSE IF Falsy(ContentOf(resp))
          THEN Fail("E", "empty completion",
                    PipelineCatch(inst.cls,
                        Err("Error", <<"No content found in finalResponse: ", ResponseJson>>)))
          ELSE Finish("E", [message |-> ContentOf(resp), success |-> TRUE,
                            duration |-> Elapsed])

\* agent.run(...) on an agent that sends one request: up to the await
AgentRun(userMessage, context) ==
    /\ UNCHANGED concVars
    /\ pc = "idle"
    /\ inst.cls \in SingleShotClasses
    /\ (inst.cls = "CitationAgent") <=> (context # Undef)
    /\ input' = [userMessage |-> userMessage, context |-> context]
    /\ LET guard == RunGuard(inst.cls, userMessage, context)
           request == SingleRequest(inst, userMessage, context)
       IN IF ~guard.ok
          THEN /\ pc' = "done"
               /\ ret' = Escaped(guard.e)
               /\ failedAt' = [step |-> "guard", cause |-> "missing input"]
               /\ UNCHANGED <<step, issued>>
          ELSE IF ~request.ok
          THEN /\ pc' = "done"
               /\ ret' = Returned(SingleCatch(inst.cls, context, request.e))
               /\ failedAt' = [step |-> "single", cause |-> "request"]
               /\ UNCHANGED <<step, issued>>
          ELSE /\ pc' = "await"
               /\ step' = "single"
               /\ issued' = <<request.v>>
               /\ UNCHANGED <<failedAt, ret>>
    /\ UNCHANGED <<inst, ctorErr, loc, received, accepted>>

\* the response of a single-request agent arrives and run returns
AgentStep(resp) ==
    /\ UNCHANGED concVars
    /\ pc = "await" /\ step = "single"
    /\ resp \in SingleReplies(inst.cls)
    /\ received' = Append(received, resp)
    /\ LET result == SingleResult(inst.cls, input.context, resp)
       IN IF result.success
          THEN Finish("single", result)
          ELSE Fail("single", "failed", result)

RequestRoute(userMessage) ==
    Request("route", inst.cls, <<System(inst.systemMessage), User(userMessage)>>,
            <<FunctionSchema("dataTransformation")>>, "0")

\* an extraction request that carries the input of run
RequestExtractOfInput(userMessage) ==
    Request("extract", "OpenAIDataTransformationAgent",
            <<System(DefaultSystemMessage("OpenAIDataTransformationAgent")),
              User(input.userMessage)>>,
            <<MathInputFunction>>, "0")

RequestExtract(userMessage) ==
    Request("extract", "OpenAIDataTransformationAgent",
            <<System(DefaultSystemMessage("OpenAIDataTransformationAgent")),
              User(userMessage)>>,
            <<MathInputFunction>>, "0")

\* mathAgent.run(userMessage): up to the first await
MathRun(userMessage) ==
    /\ UNCHANGED concVars
    /\ pc = "idle"
    /\ inst.cls = "OpenAIMathAgent"
    /\ pc' = "await"
    /\ step' = "route"
    /\ input' = [userMessage |-> userMessage, context |-> Undef]
    /\ issued' = <<RequestRoute(userMessage)>>
    /\ UNCHANGED <<inst, ctorErr, loc, received, accepted, failedAt, ret>>

\* the routing response arrives; the data transformation agent is run
MathRoute(resp) ==
    /\ UNCHANGED concVars
    /\ pc = "await" /\ step = "route"
    /\ received' = Append(received, resp)
    /\ LET r == MathRouting(resp)
       IN IF ~r.ok
          THEN Fail("route", "routing failed", MathCatch(r.e))
          ELSE Proceed("route", "extract", RequestExtract(r.v), loc)

\* the extraction response arrives, mathOperation runs, run returns
MathExtract(resp) ==
    /\ UNCHANGED concVars
    /\ pc = "await" /\ step = "extract"
    /\ received' = Append(received, resp)
    /\ LET c == MathCompletion(MathDataTransformation(resp))
       IN /\ loc' = IF c.called
                    THEN [loc EXCEPT !.mathCalled = TRUE,
                                     !.mathInputs = c.mathInputs,
                                     !.mathOperationResult = c.mathOperationResult]
                    ELSE loc
          /\ ret' = Returned(c.result)
          /\ accepted' = IF c.result.success THEN Append(accepted, "extract") ELSE accepted
          /\ failedAt' = IF c.result.success THEN failedAt
                         ELSE [step |-> "extract",
                               cause |-> IF c.called THEN "math operation"
                                         ELSE "data transformation"]
    /\ pc' = "done"
    /\ step' = ""
    /\ UNCHANGED <<inst, ctorErr, input, issued>>

Next ==
    \/ \E cls \in Classes, k \in Keys, m \in Models :
        \E sm \in (IF TakesSystemMessage(cls) THEN SystemMessages ELSE {Undef}) :
        \E il \in (IF TakesIntents(cls) THEN IntentLists ELSE {Undef}) :
            Construct(cls, k, m, sm, il)
    \/ \E userMessage \in UserMessages : PipelineRun(userMessage)
    \/ \E resp \in RepliesA : PipelineStepA(resp)
    \/ \E resp \in RepliesB : PipelineStepB(resp)
    \/ \E resp \in RepliesC : PipelineStepC(resp)
    \/ \E resp \in RepliesD : PipelineStepD(resp)
    \/ \E resp \in RepliesE : PipelineStepE(resp)
    \/ \E userMessage \in UserMessages, context \in Contexts \cup {Undef} :
            AgentRun(userMessage, context)
    \/ \E resp \in AllSingleReplies : AgentStep(resp)
    \/ \E userMessage \in UserMessages : MathRun(userMessage)
    \/ \E resp \in RepliesRoute : MathRoute(resp)
    \/ \E resp \in RepliesExtract : MathExtract(resp)

Spec == Init /\ [][Next]_vars

-----------------------------------------------------------------------------
(* Several run calls in flight at once.  run is an async method: between    *)
(* two awaits it runs to completion, and at an await any other call may     *)
(* start or continue.  Everything a call reads is its arguments, its own    *)
(* const locals and the fields of the instance it was made on.              *)

\* the request a call on self sends at step s, from its arguments and locals
RequestFrom(self, userMessage, s, l, routed) ==
    LET request(by, messages, functions, temperature) ==
            [step |-> s, by |-> by, model |-> self.model, messages |-> messages,
             functions |-> functions, temperature |-> temperature]
    IN CASE s = "A" ->
              request(self.cls, <<System(MetaPromptSystem), User(userMessage)>>, <<>>, "0")
         [] s = "B" ->
              request(DeveloperOf(self.cls),
                      <<System(DefaultSystemMessage(DeveloperOf(self.cls))), User(l.prompt)>>,
                      <<>>, "0.2")
         [] s = "C" ->
              request(InterpreterOf(self.cls),
                      <<System(DefaultSystemMessage("OpenAIJavaScriptInterpreterAgent")),
                        User(l.functionCode)>>,
                      <<InterpreterFunction>>, "0")
         [] s = "D" ->
              request(self.cls, <<System(InvocationSystem), User(userMessage)>>,
                      <<l.interpretedFunction>>, "0")
         [] s = "E" ->
              request(self.cls,
                      <<System(ExplanationSystem(self.cls)), User(userMessage),
                        Function(l.interpretedFunction.name, TemplateString(l.functionResult))>>,
                      <<>>, "0")
         [] s = "route" ->
              request(self.cls, <<System(self.systemMessage), User(userMessage)>>,
                      <<FunctionSchema("dataTransformation")>>, "0")
         [] s = "extract" ->
              request("OpenAIDataTransformationAgent",
                      <<System(DefaultSystemMessage("OpenAIDataTransformationAgent")),
                        User(routed)>>,
                      <<MathInputFunction>>, "0")

\* self.run(userMessage[, context]) up to its first await, or to its end when
\* it ends before any request goes out
RunStart(self, userMessage, context) ==
    LET r == [NoRun EXCEPT !.input = [userMessage |-> userMessage, context |-> context]]
        first(s) ==
            [r EXCEPT !.pc = "await", !.step = s,
                      !.issued = <<RequestFrom(self, userMessage, s, NoLoc, Undef)>>]
    IN IF self.cls \in PipelineClasses THEN first("A")
       ELSE IF self.cls = "OpenAIMathAgent" THEN first("route")
       ELSE LET guard == RunGuard(self.cls, userMessage, context)
                request == SingleRequest(self, userMessage, context)
            IN IF ~guard.ok
               THEN [r EXCEPT !.pc = "done", !.ret = Escaped(guard.e),
                              !.failedAt = [step |-> "guard", cause |-> "missing input"]]
               ELSE IF ~request.ok
               THEN [r EXCEPT !.pc = "done",
                              !.ret = Returned(SingleCatch(self.cls, context, request.e)),
                              !.failedAt = [step |-> "single", cause |-> "request"]]
               ELSE [r EXCEPT !.pc = "await", !.step = "single", !.issued = <<request.v>>]

\* the continuation of a call on self after the await of r.step yields resp,
\* up to the next await or to the return
RunStep(self, r, resp) ==
    LET got == [r EXCEPT !.received = Append(@, resp)]
        fail(cause, result) ==
            [got EXCEPT !.pc = "done", !.step = "",
                        !.failedAt = [step |-> r.step, cause |-> cause],
                        !.ret = Returned(result)]
        proceed(next, newLoc, routed) ==
            [got EXCEPT !.pc = "await", !.step = next,
                        !.accepted = Append(@, r.step),
                        !.issued = Append(@, RequestFrom(self, r.input.userMessage, next,
                                                         newLoc, routed)),
                        !.loc = newLoc]
        finish(result) ==
            [got EXCEPT !.pc = "done", !.step = "",
                        !.accepted = Append(@, r.step),
                        !.ret = Returned(result)]
        a == Awaited(resp)
    IN CASE r.step = "A" ->
              IF ~a.ok THEN fail(AwaitCause(resp), PipelineCatch(self.cls, a.e))
              ELSE IF Falsy(ContentOf(resp))
              THEN fail("empty completion", PipelineCatch(self.cls, NoContentError))
              ELSE proceed("B", [r.loc EXCEPT !.prompt = ContentOf(resp)], Undef)
         [] r.step = "B" ->
              LET functionResponse == DeveloperRun(resp)
              IN IF ~SubAgentSucceeded(functionResponse)
                 THEN fail("code generation failed",
                           PipelineCatch(self.cls,
                               Err("Error", <<"Error generating function: ">>
                                       \o JSONStringify(ResultObject(functionResponse)))))
                 ELSE proceed("C", [r.loc EXCEPT !.functionCode = functionResponse.code],
                              Undef)
         [] r.step = "C" ->
              LET interpreterResponse == InterpreterRun(resp)
              IN IF ~SubAgentSucceeded(interpreterResponse)
                 THEN fail("interpretation failed",
                           PipelineCatch(self.cls,
                               Err("Error", <<"Error interpreting function: ">>
                                       \o JSONStringify(ResultObject(interpreterResponse)))))
                 ELSE proceed("D",
                              [r.loc EXCEPT !.interpretedFunction = interpreterResponse.json],
                              Undef)
         [] r.step = "D" ->
              LET v == Invocation(resp, r.loc.interpretedFunction, r.loc.functionCode)
              IN IF ~v.ok
                 THEN fail(IF v.cause = "rejected" THEN AwaitCause(resp) ELSE v.cause,
                           PipelineCatch(self.cls, v.e))
                 ELSE proceed("E",
                              [r.loc EXCEPT !.args = v.args, !.paramNames = v.paramNames,
                                            !.paramValues = v.paramValues,
                                            !.functionResult = v.functionResult],
                              Undef)
         [] r.step = "E" ->
              IF ~a.ok THEN fail(AwaitCause(resp), PipelineCatch(self.cls, a.e))
              ELSE IF Falsy(ContentOf(resp))
              THEN fail("empty completion",
                        PipelineCatch(self.cls,
                            Err("Error", <<"No content found in finalResponse: ",
                                           ResponseJson>>)))
              ELSE finish([message |-> ContentOf(resp), success |-> TRUE,
                           duration |-> Elapsed])
         [] r.step = "single" ->
              LET result == SingleResult(self.cls, r.input.context, resp)
              IN IF result.success THEN finish(result) ELSE fail("failed", result)
         [] r.step = "route" ->
              LET routing == MathRouting(resp)
              IN IF ~routing.ok THEN fail("routing failed", MathCatch(routing.e))
                 ELSE proceed("extract", r.loc, routing.v)
         [] r.step = "extract" ->
              LET c == MathCompletion(MathDataTransformation(resp))
                  newLoc == IF c.called
                            THEN [r.loc EXCEPT !.mathCalled = TRUE,
                                               !.mathInputs = c.mathInputs,
                                               !.mathOperationResult = c.mathOperationResult]
                            ELSE r.loc
              IN IF c.result.success
                 THEN [finish(c.result) EXCEPT !.loc = newLoc]
                 ELSE [fail(IF c.called THEN "math operation" ELSE "data transformation",
                            c.result) EXCEPT !.loc = newLoc]

\* the answers the completion client gives while several calls are in flight
Answers(s, cls) ==
    LET call(name, texts) == {Reply(Null, Call(Str(name), t)) : t \in texts}
        classified ==
            ObjText(<<<<NameKey(cls), Str("greeting")>>,
                      <<WhyKey(cls), Str("the user says hello")>>,
                      <<"confidentPercentage", Num(95)>>,
                      <<FlagKey(cls), Bool(TRUE)>>>>)
    IN CASE s = "A" ->
              {Reject(ApiErr), Reply(Str("Write a function that adds two numbers."), NoCall)}
         [] s = "B" \/ (s = "single" /\ cls \in DeveloperClasses) ->
              {Reply(Undef, NoCall), Reply(AddCode, NoCall)}
         [] s = "C" \/ (s = "single" /\ cls \in InterpreterClasses) ->
              call("interpreterFunction",
                   {InterpreterText(Arr(<<FunctionArgument("a"), FunctionArgument("b")>>)),
                    Malformed})
         [] s = "D" ->
              call("add", {ObjText(<<<<"a", Num(1)>>, <<"b", Num(2)>>>>), Malformed})
         [] s = "E" -> {Completion(<<>>), Reply(Str("The result is 3."), NoCall)}
         [] s = "route" ->
              {Reject(ApiErr)}
                \cup call("dataTransformation",
                          {ObjText(<<<<"userMessage", Str("what is 1 plus 2")>>>>)})
         [] s = "extract" ->
              call("mathInputFunction",
                   {ObjText(<<<<"input1", Num(1)>>, <<"input2", Num(2)>>,
                              <<"operation", Str("add")>>>>),
                    ObjText(<<<<"input1", Num(1)>>, <<"input2", Num(0)>>,
                              <<"operation", Str("divide")>>>>)})
         [] s = "single" /\ cls \in DataTransformationClasses ->
              {Reject(ApiErr)}
                \cup call("convertTemperature",
                          {ObjText(<<<<"temperature_number", Num(2)>>,
                                     <<"temperature_current_type", Str("celsius")>>>>),
                           ObjText(<<<<"temperature_number", Num(1)>>,
                                     <<"temperature_current_type", Str("celsius")>>>>)})
         [] s = "single" /\ cls \in IntentClasses ->
              {Reply(Undef, NoCall)} \cup call("intentClassificationFunction", {classified})
         [] s = "single" /\ cls = "SentimentClassificationAgent" ->
              {Reply(Undef, NoCall)} \cup call("sentimentClassificationFunction", {classified})
         [] s = "single" /\ cls = "CitationAgent" ->
              {Reply(Undef, NoCall)}
                \cup call("citation",
                          {ObjText(<<<<"responseToUsersMessage", Str("Revenue grew.")>>,
                                     <<"filename", Str("report.pdf")>>,
                                     <<"pageNumber", Num(3)>>,
                                     <<"explanationOfWhyThisSourceWasChosen",
                                       Str("it states the revenue")>>>>)})
         [] OTHER -> {}

AllAnswers == UNION {Answers(s, cls) : s \in {"A", "B", "C", "D", "E", "route", "extract", "single"}, cls \in Classes}

\* the variables of the single run
soloVars == <<inst, ctorErr, pc, step, input, loc, issued, received, accepted, failedAt, ret>>

\* a call in which run reads the locals of the call made first
LocalsOfFirst(rs, i) == rs["first"].loc

\* the locals the continuation of call i reads: the const bindings of its own
\* activation of run
LocalsOf(rs, i) == rs[i].loc

\* a run that forgets the schema of the instance once it has sent it
InstanceForgettingSchema(self, r) == [self EXCEPT !.functionDefinition = NoSchema]

\* a run that keeps the last user message in a field of the instance
InstanceKeepingMessage(self, r) == [self EXCEPT !.systemMessage = r.input.userMessage]

\* the instance after a stretch of a run on it: run assigns to no field of this
InstanceAfter(self, r) == self

\* agents[h] = new cls(...), with a usable key and model
Create(h, cls, systemMessage) ==
    /\ agents[h] = NoInstance
    /\ h = "y" => agents["x"] # NoInstance
    /\ TakesSystemMessage(cls) \/ systemMessage = Undef
    /\ LET made == Constructor(cls, "sk-test", "gpt-4-0613", systemMessage,
                               IF TakesIntents(cls) THEN Arr(<<SomeIntent>>) ELSE Undef)
       IN /\ made.ok
          /\ agents' = [agents EXCEPT ![h] = made.v]
    /\ UNCHANGED <<target, runs>>
    /\ UNCHANGED soloVars

\* call i is made: agents[h].run(userMessage[, context]) runs to its first await
Invoke(i, h, userMessage, context) ==
    /\ runs[i].pc = "idle"
    /\ agents[h] # NoInstance
    /\ (agents[h].cls = "CitationAgent") <=> (context # Undef)
    /\ target' = [target EXCEPT ![i] = h]
    /\ runs' = [runs EXCEPT ![i] = RunStart(agents[h], userMessage, context)]
    /\ agents' = [agents EXCEPT ![h] = InstanceAfter(@, runs'[i])]
    /\ UNCHANGED soloVars

\* the outstanding request of call i is answered and its continuation runs
Respond(i, resp) ==
    /\ runs[i].pc = "await"
    /\ resp \in Answers(runs[i].step, agents[target[i]].cls)
    /\ runs' = [runs EXCEPT ![i] = RunStep(agents[target[i]],
                                           [@ EXCEPT !.loc = LocalsOf(runs, i)], resp)]
    /\ agents' = [agents EXCEPT ![target[i]] = InstanceAfter(@, runs'[i])]
    /\ UNCHANGED target
    /\ UNCHANGED soloVars

\* the caller drops the outcome of call i and may make another call
Settle(i) ==
    /\ runs[i].pc = "done"
    /\ runs' = [runs EXCEPT ![i] = NoRun]
    /\ target' = [target EXCEPT ![i] = ""]
    /\ UNCHANGED agents
    /\ UNCHANGED soloVars

NextOverlapped ==
    \/ \E h \in Holders, cls \in Classes, sm \in SystemMessages : Create(h, cls, sm)
    \/ \E i \in Invocations, h \in Holders :
        \E userMessage \in UserMessages, context \in Contexts \cup {Undef} :
            Invoke(i, h, userMessage, context)
    \/ \E i \in Invocations, resp \in AllAnswers : Respond(i, resp)
    \/ \E i \in Invocations : Settle(i)

SpecOverlapped == Init /\ [][NextOverlapped]_vars

\* the single run of the sections above, as a record
TheRun ==
    [pc |-> pc, step |-> step, input |-> input, loc |-> loc, issued |-> issued,
     received |-> received, accepted |-> accepted, failedAt |-> failedAt, ret |-> ret]

\* every step of the single run is a step of RunStart / RunStep
SingleRunAgrees ==
    [][/\ (pc = "idle" /\ pc' # "idle") =>
            TheRun' = RunStart(inst, input'.userMessage, input'.context)
       /\ (pc = "await") =>
            TheRun' = RunStep(inst, TheRun, received'[Len(received')])]_vars

-----------------------------------------------------------------------------
(* Properties *)

PipelineOrder == <<"A", "B", "C", "D", "E">>
StepsIssued == [i \in 1..Len(issued) |-> issued[i].step]
IsPrefix(p, q) == Len(p) <= Len(q) /\ \A i \in 1..Len(p) : p[i] = q[i]
Outstanding == Len(issued) - Len(received)
InPipeline == inst.cls \in PipelineClasses
HasReturned == pc = "done" /\ ret.kind = "returned"

\* C1: in a pipeline run the completion requests go out in the order A, B, C,
\* D, E, each step once; a step's request goes out only after the previous
\* step's response was received and accepted, and at most one request is
\* outstanding at any time.
C1_StrictStepOrder ==
    InPipeline =>
        /\ IsPrefix(StepsIssued, PipelineOrder)
        /\ Outstanding \in {0, 1}
        /\ (pc = "await") <=> (Outstanding = 1)
        /\ \A i \in 2..Len(issued) :
              /\ i - 1 <= Len(received)
              /\ received[i - 1] \notin FailureReplies
              /\ i - 1 <= Len(accepted)
              /\ accepted[i - 1] = PipelineOrder[i - 1]

\* a run that issued all five requests and returned success
C1_Witness ==
    /\ InPipeline /\ HasReturned
    /\ StepsIssued = PipelineOrder
    /\ ret.value.success

\* C2: the first failing step of a pipeline run ends it: run returns
\* success=false with the generic failure message, every issued request has
\* been answered, the last request issued is the failed step's, and no step's
\* request was issued twice.
C2_FirstFailureEndsRun ==
    InPipeline =>
        /\ (Len(received) > 0 /\ received[Len(received)] \in FailureReplies)
              => failedAt.step = PipelineOrder[Len(received)]
        /\ failedAt.step # "" =>
              /\ HasReturned
              /\ ret.value.success = FALSE
              /\ ret.value.message = GenericFailure
              /\ Len(issued) = Len(received)
              /\ issued[Len(issued)].step = failedAt.step
              /\ \A i, j \in 1..Len(issued) : issued[i].step = issued[j].step => i = j

\* a run that failed at Step D for want of a function call, after four requests
C2_Witness ==
    /\ InPipeline /\ HasReturned
    /\ failedAt = [step |-> "D", cause |-> "no function call"]
    /\ StepsIssued = <<"A", "B", "C", "D">>

\* C3: every run completes by returning a result object, with success=false
\* when it failed; no exception escapes run to the caller, whatever the
\* input (an empty user message or context included) and whatever the
\* completion client answered.
C3_NoExceptionEscapes ==
    pc = "done" =>
        /\ ret.kind = "returned"
        /\ failedAt # NoFailure => ret.value.success = FALSE

EvaluationFailed == failedAt = [step |-> "D", cause |-> "evaluation"]

\* C4: when Step D's evaluation of the generated source throws, run returns
\* success=false with an error field that differs from the one returned for
\* an empty completion in Step A, and no Step E request is issued.
C4_EvaluationErrorIdentified ==
    (InPipeline /\ EvaluationFailed) =>
        /\ HasReturned
        /\ ret.value.success = FALSE
        /\ ret.value.error # PipelineCatch(inst.cls, NoContentError).error
        /\ \A i \in 1..Len(issued) : issued[i].step # "E"

\* the math agent extracted a division of a number by zero
DivisionByZeroExtracted ==
    /\ inst.cls = "OpenAIMathAgent"
    /\ loc.mathCalled
    /\ ObjGet(loc.mathInputs, "operation") = Str("divide")
    /\ ObjGet(loc.mathInputs, "input1").t = "number"
    /\ ObjGet(loc.mathInputs, "input2") = Num(0)

\* C5: when the math agent's run extracts a division by zero, the result of
\* run has success=false and an error field that names the division by zero.
C5_DivisionByZeroIdentified ==
    DivisionByZeroExtracted =>
        /\ HasReturned
        /\ ret.value.success = FALSE
        /\ ret.value.error.t = "text"
        /\ Mentions(ret.value.error.toks, "Cannot divide by zero")

\* C6: no constructed agent instance, of any class, holds an empty API
\* credential or an empty model identifier: construction with either fails.
C6_NoEmptyCredentialOrModel ==
    inst # NoInstance => inst.apiKey # "" /\ inst.model # ""

\* the schemas the Schema Interpretation Step has produced: the one the
\* pipeline took from Step C, and the one a stand-alone interpreter returned
InterpretedSchemas ==
    (IF InPipeline /\ Len(accepted) >= 3 THEN {loc.interpretedFunction} ELSE {})
        \cup (IF inst.cls \in InterpreterClasses /\ HasReturned /\ ret.value.success
              THEN {ret.value.json} ELSE {})

RequiredNames(f) == {f.parameters.required[i] : i \in 1..Len(f.parameters.required)}
PropertyNames(f) ==
    {Str(ObjectKeys(f.parameters.properties)[i]) :
        i \in 1..Len(ObjectKeys(f.parameters.properties))}

\* C7: in every schema the Schema Interpretation Step produces, the set of
\* names in required equals the set of keys of properties.
C7_RequiredEqualsPropertyKeys ==
    \A f \in InterpretedSchemas : RequiredNames(f) = PropertyNames(f)

\* the Step C response received by the pipeline or by a stand-alone interpreter
HasInterpreterResponse ==
    \/ InPipeline /\ Len(received) >= 3
    \/ inst.cls \in InterpreterClasses /\ Len(received) >= 1
InterpreterResponse == IF InPipeline THEN received[3] ELSE received[1]

\* the interpreter's response has choices but no function call
AnsweredWithoutCall(resp) ==
    resp.r = "ok" /\ Len(resp.choices) > 0 /\ NoFunctionCall(resp)

\* the functionArguments of a response that carries a function call with an
\* arguments object
HasArgumentsObject(resp) ==
    /\ resp.r = "ok" /\ Len(resp.choices) > 0 /\ ~NoFunctionCall(resp)
    /\ resp.choices[1].message.function_call.arguments.j = "object"
FunctionArgumentsOf(resp) ==
    ObjGet(JSONParse(resp.choices[1].message.function_call.arguments).v,
           "functionArguments")

\* the interpretation failed: a stand-alone interpreter returned success=false,
\* the pipeline failed at Step C and issued no Step D request
InterpretationFailed ==
    /\ HasReturned /\ ret.value.success = FALSE
    /\ InPipeline => failedAt.step = "C" /\ Len(issued) = 3

\* the interpretation produced the schema without parameters, and the pipeline
\* went on to Step D with it
InterpretedWithoutParameters ==
    LET none == [type |-> "object", properties |-> Obj(<<>>), required |-> <<>>]
    IN IF InPipeline
       THEN /\ Len(accepted) >= 3 /\ Len(issued) >= 4
            /\ loc.interpretedFunction.parameters = none
       ELSE /\ HasReturned /\ ret.value.success
            /\ ret.value.json.parameters = none

\* C8 as stated: the Schema Interpretation Step fails whenever the model
\* returns no function call, or a functionArguments list that is empty,
\* absent or not a list.
C8_FailsOnEmptyOrMalformedList ==
    HasInterpreterResponse =>
        LET resp == InterpreterResponse
        IN (\/ AnsweredWithoutCall(resp)
            \/ HasArgumentsObject(resp) /\ FunctionArgumentsOf(resp).t # "array"
            \/ HasArgumentsObject(resp) /\ FunctionArgumentsOf(resp) = Arr(<<>>))
           => InterpretationFailed

\* C8 amended: the Schema Interpretation Step fails whenever the model returns
\* no function call, or a functionArguments that is absent, null or not a
\* list; an empty list is accepted, gives a schema with no properties and no
\* required names, and the pipeline goes on to Step D.
C8_FailsOnMissingListAcceptsEmpty ==
    HasInterpreterResponse =>
        LET resp == InterpreterResponse
        IN /\ (\/ AnsweredWithoutCall(resp)
               \/ HasArgumentsObject(resp) /\ FunctionArgumentsOf(resp).t # "array")
              => InterpretationFailed
           /\ (HasArgumentsObject(resp) /\ FunctionArgumentsOf(resp) = Arr(<<>>))
              => InterpretedWithoutParameters

\* a pipeline run that failed at Step C on a functionArguments that is a
\* string
C8_Witness ==
    /\ InPipeline /\ HasReturned
    /\ Len(received) = 3
    /\ HasArgumentsObject(received[3])
    /\ FunctionArgumentsOf(received[3]) = Str("a, b")
    /\ failedAt.step = "C"

\* the key/value pairs of a parsed arguments object
PairsOf(args) == IF args.t = "object" THEN {args.pairs[i] : i \in 1..Len(args.pairs)} ELSE {}

\* C9: the argument values Step D passes are the schema's property names, in
\* the insertion order of properties, looked up in the parsed arguments; any
\* arguments text with the same key/value pairs in another key order gives
\* the same name list and the same value list.
C9_SchemaOrderNotArgumentOrder ==
    (InPipeline /\ Len(accepted) >= 4) =>
        /\ loc.paramNames = ObjectKeys(loc.interpretedFunction.parameters.properties)
        /\ Len(loc.paramValues) = Len(loc.paramNames)
        /\ \A i \in 1..Len(loc.paramNames) :
              loc.paramValues[i] = ObjGet(loc.args, loc.paramNames[i])
        /\ \A t \in ArgumentTexts :
              (t.j = "object" /\ PairsOf(JSONParse(t).v) = PairsOf(loc.args)) =>
                 LET r == Invocation(Reply(Null, Call(Str("add"), t)),
                                     loc.interpretedFunction, loc.functionCode)
                 IN /\ r.ok
                    /\ r.paramNames = loc.paramNames
                    /\ r.paramValues = loc.paramValues

\* Step D accepted arguments written in the order b, a for a schema with the
\* properties a, b
C9_Witness ==
    /\ InPipeline /\ Len(accepted) >= 4
    /\ loc.paramNames = <<"a", "b">>
    /\ ObjectKeys(loc.args) = <<"b", "a">>
    /\ loc.paramValues = <<Num(1), Num(2)>>

\* mathOperation was called with two integers and the operation
MathApplied(operation, a, b) ==
    /\ inst.cls = "OpenAIMathAgent"
    /\ loc.mathCalled
    /\ ObjGet(loc.mathInputs, "operation") = Str(operation)
    /\ ObjGet(loc.mathInputs, "input1") = Num(a)
    /\ ObjGet(loc.mathInputs, "input2") = Num(b)

MathSuccess(result) ==
    Val([json |-> Obj(<<<<"result", Num(result)>>>>), success |-> TRUE,
         duration |-> Elapsed])

\* C10: for all integers a, b of the range, mathOperation gives a+b for add,
\* a-b for subtract and a*b for multiply, each with success=true and as a
\* function of its input; divide by zero gives success=false and no result,
\* for every a.
C10_MathOperationArithmetic ==
    \A a, b \in (-MaxOperand)..MaxOperand :
        /\ MathApplied("add", a, b) => loc.mathOperationResult = MathSuccess(a + b)
        /\ MathApplied("subtract", a, b) => loc.mathOperationResult = MathSuccess(a - b)
        /\ MathApplied("multiply", a, b) => loc.mathOperationResult = MathSuccess(a * b)
        /\ MathApplied("divide", a, 0) =>
              /\ loc.mathOperationResult.ok
              /\ loc.mathOperationResult.v.success = FALSE
              /\ ObjGet(loc.mathOperationResult.v.json, "result") = Undef
        /\ loc.mathCalled => loc.mathOperationResult = mathOperation(loc.mathInputs)

\* a run in which mathOperation subtracted 2 from 1
C10_Witness ==
    /\ MathApplied("subtract", 1, 2)
    /\ HasReturned /\ ret.value.success
    /\ ret.value.json = Obj(<<<<"result", Num(-1)>>>>)

\* the supported operations of mathOperation
SupportedOperations == {Str("add"), Str("subtract"), Str("multiply"), Str("divide")}

\* the first field of the math input that mathOperation finds missing, if any
FirstMissingField ==
    CASE IsNullish(ObjGet(loc.mathInputs, "operation")) -> "operation"
      [] IsNullish(ObjGet(loc.mathInputs, "input1")) -> "input1"
      [] IsNullish(ObjGet(loc.mathInputs, "input2")) -> "input2"
      [] OTHER -> ""

\* mathOperation returned a failure with an empty json and the error text
MathRejectedWith(toks) ==
    /\ loc.mathOperationResult.ok
    /\ loc.mathOperationResult.v.success = FALSE
    /\ loc.mathOperationResult.v.json = Obj(<<>>)
    /\ loc.mathOperationResult.v.error.t = "text"
    /\ \A i \in 1..Len(toks) : loc.mathOperationResult.v.error.toks[i] = toks[i]

\* C11: mathOperation returns success=false with an empty json, and computes
\* nothing, when a field of the extracted record is absent (the error text
\* names the first missing field) and when the operation is none of add,
\* subtract, multiply, divide (the error text names the operation).
C11_RejectsUnknownAndMissing ==
    (inst.cls = "OpenAIMathAgent" /\ loc.mathCalled /\ loc.mathInputs.t = "object") =>
        /\ FirstMissingField # "" =>
              MathRejectedWith(<<"No " \o FirstMissingField \o " found in math input: ">>)
        /\ (FirstMissingField = ""
              /\ ObjGet(loc.mathInputs, "operation") \notin SupportedOperations) =>
              MathRejectedWith(<<"Invalid operation \"">>
                  \o TemplateString(ObjGet(loc.mathInputs, "operation")).toks)

\* mathOperation was handed the operation modulo with both operands present
C11_Witness ==
    /\ inst.cls = "OpenAIMathAgent" /\ loc.mathCalled
    /\ ObjGet(loc.mathInputs, "operation") = Str("modulo")
    /\ ObjGet(loc.mathInputs, "input1") = Num(1)
    /\ ObjGet(loc.mathInputs, "input2") = Num(2)
    /\ HasReturned /\ ret.value.success = FALSE

\* run returned success=true with json {result: n/d}
MathReturned(n, d) ==
    /\ HasReturned
    /\ ret.value.success = TRUE
    /\ ObjectKeys(ret.value.json) = <<"result">>
    /\ ObjGet(ret.value.json, "result").t = "number"
    /\ ObjGet(ret.value.json, "result").n * d = n * ObjGet(ret.value.json, "result").d

\* C12: a math run whose extraction yields {input1: a, input2: b, operation}
\* with a supported operation (b non-zero for divide) returns success=true
\* with json exactly {result: a op b}; mathOperation is applied only after
\* the extraction's response was received and the extraction succeeded.
C12_RunReturnsArithmeticResult ==
    /\ \A a, b \in (-MaxOperand)..MaxOperand :
          /\ MathApplied("add", a, b) => MathReturned(a + b, 1)
          /\ MathApplied("subtract", a, b) => MathReturned(a - b, 1)
          /\ MathApplied("multiply", a, b) => MathReturned(a * b, 1)
          /\ (MathApplied("divide", a, b) /\ b # 0) => MathReturned(a, b)
    /\ (inst.cls = "OpenAIMathAgent" /\ loc.mathCalled) =>
          /\ Len(issued) = 2 /\ Len(received) = 2
          /\ accepted[1] = "route"
          /\ DataTransformationRun("OpenAIDataTransformationAgent", received[2]).success

\* a run that divided 1 by 2
C12_Witness ==
    /\ MathApplied("divide", 1, 2)
    /\ HasReturned /\ ret.value.success
    /\ ret.value.json = Obj(<<<<"result", [t |-> "number", n |-> 1, d |-> 2]>>>>)

InDataTransformation == inst.cls \in DataTransformationClasses /\ pc \in {"await", "done"}

\* the one request of a data transformation run: the construction-time schema
\* as the only function, the construction-time system message, the user message
IsDataTransformationRequest(request) ==
    /\ request.functions = <<inst.functionDefinition>>
    /\ request.messages = <<System(inst.systemMessage), User(input.userMessage)>>

\* what run returned matches the response it received: the parsed arguments
\* unchanged for a function call, success=false and json {} without one
DataTransformationResultMatches ==
    LET resp == received[1]
        text == resp.choices[1].message.function_call.arguments
    IN /\ ret.kind = "returned"
       /\ (resp.r = "ok" /\ Len(resp.choices) > 0 /\ ~NoFunctionCall(resp)
             /\ JSONParse(text).ok) =>
                /\ ret.value.success = TRUE
                /\ ret.value.json = JSONParse(text).v
       /\ AnsweredWithoutCall(resp) =>
                /\ ret.value.success = FALSE
                /\ ret.value.json = Obj(<<>>)

RefusedByGuard == ~RunGuard(inst.cls, input.userMessage, input.context).ok

ClassificationClasses == IntentClasses \cup {"SentimentClassificationAgent"}

\* the classification record inside the json of a returned result
ClassificationOf(result) ==
    ObjGet(result.json,
           IF inst.cls = "SentimentClassificationAgent" THEN "sentiment" ELSE "intent")

\* the four field names of the class's classification record
ClassificationFields ==
    CASE inst.cls = "SentimentClassificationAgent" ->
            <<"type", "whyWasThisSentimentChosen", "confidentPercentage",
              "successfullyClassified">>
      [] inst.cls = "IntentClassificationAgent" ->
            <<"name", "whyWasThisIntentChosen", "confidentPercentage",
              "successfullyClassified">>
      [] OTHER ->
            <<"name", "description", "confidentPercentage", "successfullyClassified">>

\* the argument each field is read from
ClassificationArguments ==
    <<NameKey(inst.cls), WhyKey(inst.cls), "confidentPercentage", FlagKey(inst.cls)>>

\* the parsed arguments of the function call a classification run received
ClassifiedArguments ==
    JSONParse(received[1].choices[1].message.function_call.arguments).v

\* C15: every result the intent and sentiment agents return carries a
\* classification record with all four fields defined: null, null, 0, false
\* with success=false on a failure; on success each field is the argument
\* the model gave, or null (0 for confidentPercentage) where it gave none.
C15_ClassificationRecordIsTotal ==
    (inst.cls \in ClassificationClasses /\ HasReturned) =>
        LET record == ClassificationOf(ret.value)
            sentinel == <<Null, Null, Num(0), Null>>
        IN /\ record.t = "object"
           /\ ObjectKeys(record) = ClassificationFields
           /\ \A i \in 1..4 : record.pairs[i][2].t # "undefined"
           /\ failedAt # NoFailure => ret.value.success = FALSE
           /\ ret.value.success = FALSE =>
                 [i \in 1..4 |-> record.pairs[i][2]] = <<Null, Null, Num(0), Bool(FALSE)>>
           /\ ret.value.success = TRUE =>
                 \A i \in 1..4 :
                    LET given == ObjGet(ClassifiedArguments, ClassificationArguments[i])
                    IN record.pairs[i][2] =
                          IF given.t \in {"undefined", "null"} THEN sentinel[i] ELSE given

\* a sentiment run whose function call carried no argument at all
C15_Witness ==
    /\ inst.cls = "SentimentClassificationAgent" /\ HasReturned
    /\ ret.value.success
    /\ ClassifiedArguments = Obj(<<>>)
    /\ ClassificationOf(ret.value).pairs[3] = <<"confidentPercentage", Num(0)>>

\* the response carries a function call whose arguments give all four
\* classification values
CarriesAllFour(resp) ==
    /\ HasArgumentsObject(resp)
    /\ \A i \in 1..4 :
          ~IsNullish(ObjGet(JSONParse(resp.choices[1].message.function_call.arguments).v,
                            ClassificationArguments[i]))

\* C16: when the function call's arguments carry sentimentType,
\* whyWasThisSentimentChosen, confidentPercentage and successfullyClassified,
\* the sentiment run returns success=true with a sentiment record holding
\* exactly those four values.
C16_SentimentFieldsVerbatim ==
    (inst.cls = "SentimentClassificationAgent" /\ HasReturned
        /\ Len(received) = 1 /\ CarriesAllFour(received[1])) =>
        /\ ret.value.success = TRUE
        /\ ObjectKeys(ret.value.json) = <<"sentiment">>
        /\ ClassificationOf(ret.value).pairs =
              <<<<"type", ObjGet(ClassifiedArguments, "sentimentType")>>,
                <<"whyWasThisSentimentChosen",
                  ObjGet(ClassifiedArguments, "whyWasThisSentimentChosen")>>,
                <<"confidentPercentage", ObjGet(ClassifiedArguments, "confidentPercentage")>>,
                <<"successfullyClassified",
                  ObjGet(ClassifiedArguments, "successfullyClassified")>>>>

\* a sentiment run given all four values, the flag being false
C16_Witness ==
    /\ inst.cls = "SentimentClassificationAgent" /\ HasReturned
    /\ Len(received) = 1 /\ CarriesAllFour(received[1])
    /\ ObjGet(ClassifiedArguments, "successfullyClassified") = Bool(FALSE)
    /\ ObjGet(ClassificationOf(ret.value), "confidentPercentage") = Num(95)

InCitation == inst.cls = "CitationAgent" /\ pc \in {"await", "done"}

\* the one request of a citation run: system message, user message, and the
\* caller's context as a message of role function
IsCitationRequest(request) ==
    request.messages =
        <<System(inst.systemMessage), User(input.userMessage),
          [role |-> "function", name |-> Str("context"), content |-> input.context]>>

\* the result of a citation run: the context unchanged, and on success the
\* returned response text and citation fields
CitationResultMatches ==
    LET args == JSONParse(received[1].choices[1].message.function_call.arguments).v
    IN /\ ret.kind = "returned"
       /\ ret.value.context = input.context
       /\ ret.value.success = TRUE =>
             /\ ret.value.message = ObjGet(args, "responseToUsersMessage")
             /\ ret.value.citation.pairs =
                   <<<<"filename", ObjGet(args, "filename")>>,
                     <<"pageNumber", ObjGet(args, "pageNumber")>>,
                     <<"explanationOfWhyThisSourceWasChosen",
                       ObjGet(args, "explanationOfWhyThisSourceWasChosen")>>>>

C18_UniformOutcomeShape ==
    HasReturned =>
        /\ "success" \in DOMAIN ret.value
        /\ ret.value.success \in BOOLEAN
        /\ "duration" \in DOMAIN ret.value
        /\ ("error" \in DOMAIN ret.value) <=> (ret.value.success = FALSE)

\* what the completion client sees of a request
Wire(request) ==
    [model |-> request.model, messages |-> request.messages,
     functions |-> request.functions, temperature |-> request.temperature]
Wires(requests) == [j \in 1..Len(requests) |-> Wire(requests[j])]

\* the client answered equal requests of the two calls equally
AnsweredAlike(r1, r2) ==
    \A j \in 1..Len(r1.received), k \in 1..Len(r2.received) :
        Wire(r1.issued[j]) = Wire(r2.issued[k]) => r1.received[j] = r2.received[k]

\* two finished calls on data transformation agents of one class with the
\* same model, schema, system message and user message
TwinTransformations ==
    LET a1 == agents[target["first"]]
        a2 == agents[target["second"]]
    IN /\ runs["first"].pc = "done" /\ runs["second"].pc = "done"
       /\ a1.cls \in DataTransformationClasses /\ a2.cls = a1.cls
       /\ a2.model = a1.model
       /\ a2.functionDefinition = a1.functionDefinition
       /\ a2.systemMessage = a1.systemMessage
       /\ runs["second"].input.userMessage = runs["first"].input.userMessage

RECURSIVE Alone(_, _, _)
Alone(self, in, resps) ==
    IF resps = <<>> THEN RunStart(self, in.userMessage, in.context)
    ELSE RunStep(self, Alone(self, in, SubSeq(resps, 1, Len(resps) - 1)), resps[Len(resps)])

C20_RunsLeaveInstanceAlone ==
    [][\A h \in Holders : agents[h] # NoInstance => agents'[h] = agents[h]]_vars

\* one instance after a successful and a failed run on it
C20_Witness ==
    /\ target["first"] = "x" /\ target["second"] = "x"
    /\ runs["first"].ret.kind = "returned" /\ runs["first"].ret.value.success
    /\ runs["second"].ret.kind = "returned" /\ ~runs["second"].ret.value.success
    /\ agents["x"] = Constructor(agents["x"].cls, "sk-test", "gpt-4-0613", Undef,
                                 agents["x"].intents).v

\* the single run against a completion client that answers every request of
\* a pipeline run, with a completion or with a rejection
SpecAnswered ==
    /\ Spec
    /\ WF_vars(\E resp \in RepliesA : PipelineStepA(resp))
    /\ WF_vars(\E resp \in RepliesB : PipelineStepB(resp))
    /\ WF_vars(\E resp \in RepliesC : PipelineStepC(resp))
    /\ WF_vars(\E resp \in RepliesD : PipelineStepD(resp))
    /\ WF_vars(\E resp \in RepliesE : PipelineStepE(resp))

\* the run leaves its await, and its outcome is set, only in a step in which
\* an answer arrives
OnlyAnswersMoveTheRun ==
    (InPipeline /\ pc = "await" /\ (pc' # pc \/ ret' # ret \/ issued' # issued)) =>
        Len(received') = Len(received) + 1

RoundTripClasses ==
    DataTransformationClasses \cup IntentClasses
        \cup {"SentimentClassificationAgent", "CitationAgent", "OpenAIMathAgent"}

\* C22: a finished run of the data transformation, intent, sentiment,
\* citation and arithmetic agents sent exactly one completion request and
\* received exactly one answer.
C22_OneRoundTripPerRun ==
    (inst.cls \in RoundTripClasses /\ pc = "done") =>
        Len(issued) = 1 /\ Len(received) = 1

\* Step D received a function call whose arguments text is a JSON object
StepDArgumentsObject ==
    /\ InPipeline /\ Len(received) >= 4
    /\ received[4].r = "ok" /\ Len(received[4].choices) > 0
    /\ ~NoFunctionCall(received[4])
    /\ received[4].choices[1].message.function_call.arguments.j = "object"

StepDArguments == JSONParse(received[4].choices[1].message.function_call.arguments).v

\* the property names of the interpreted schema that the arguments lack
MissingNames ==
    {n \in {loc.interpretedFunction.parameters.properties.pairs[i][1] :
                i \in 1..Len(loc.interpretedFunction.parameters.properties.pairs)} :
        \A p \in PairsOf(StepDArguments) : p[1] # n}

\* the value the generated function gets at position i: the argument of that
\* name, undefined when the arguments have no such key
ExpectedValue(i) ==
    LET n == ObjectKeys(loc.interpretedFunction.parameters.properties)[i]
    IN IF n \in MissingNames THEN Undef ELSE ObjGet(StepDArguments, n)

\* C23: whatever subset of the schema's property names is missing from the
\* parsed arguments object, Step D evaluates the generated function with
\* undefined at the missing positions and ends as that evaluation ends: it
\* fails only if the function throws.
C23_MissingArgumentsAreUndefined ==
    StepDArgumentsObject =>
        LET names == ObjectKeys(loc.interpretedFunction.parameters.properties)
            values == [i \in 1..Len(names) |-> ExpectedValue(i)]
            r == Evaluate(loc.functionCode, names, values)
        IN IF r.ok
           THEN /\ Len(accepted) >= 4 /\ accepted[4] = "D"
                /\ loc.paramValues = values
                /\ loc.functionResult = r.v
           ELSE /\ EvaluationFailed
                /\ Len(accepted) = 3

\* add(a, b) evaluated with b missing from the arguments
C23_Witness ==
    /\ StepDArgumentsObject
    /\ loc.functionCode = AddCode
    /\ loc.paramNames = <<"a", "b">>
    /\ MissingNames = {"b"}
    /\ loc.paramValues = <<Num(1), Undef>>
    /\ loc.functionResult = NaN
    /\ Len(issued) = 5

\* the text of a Step D result: the digits of a number, NaN, the characters
\* of a string, the name of undefined or null
TextOfResult(v) ==
    CASE v.t = "number" -> Text(<<ToString(v.n)>>)
      [] v.t = "string" -> Text(<<v.s>>)
      [] v = NaN -> Text(<<"NaN">>)
      [] v = Undef -> Text(<<"undefined">>)
      [] v = Null -> Text(<<"null">>)

\* the explanation arrived with text in it
ExplanationGiven ==
    /\ received[5].r = "ok" /\ Len(received[5].choices) > 0
    /\ ~Falsy(ContentOf(received[5]))

PartialCall(resp) ==
    /\ resp.r = "ok" /\ Len(resp.choices) > 0
    /\ resp.choices[1].message.function_call.present
    /\ \/ resp.choices[1].message.function_call.name \in {Undef, Null, Str("")}
       \/ resp.choices[1].message.function_call.arguments \in {NoText, EmptyText}

\* the same completion without any function call
WithoutCall(resp) == Reply(ContentOf(resp), NoCall)

\* the requests that offer functions are the ones that expect a function call
ExpectsFunctionCall(request) == Len(request.functions) > 0

\* C25: wherever an agent expects a function call (data transformation,
\* intent, sentiment, citation, schema interpretation, arithmetic routing and
\* extraction, pipeline Step D), a completion whose function call lacks a
\* non-empty name or non-empty arguments text ends the run as the same
\* completion without a function call does: success=false, the same result,
\* no further request.
C25_PartialCallIsNoCall ==
    \A k \in 1..Len(received) :
        (PartialCall(received[k]) /\ ExpectsFunctionCall(issued[k])) =>
            /\ Len(issued) = k
            /\ HasReturned
            /\ ret.value.success = FALSE
            /\ ret = Alone(inst, input, [received EXCEPT ![k] = WithoutCall(@)]).ret

\* Step D of a pipeline run answered with arguments but no function name
C25_Witness ==
    /\ InPipeline /\ Len(received) = 4
    /\ received[4] = Reply(Null, Call(Undef, ObjText(<<>>)))
    /\ HasReturned /\ ~ret.value.success
    /\ failedAt = [step |-> "D", cause |-> "no function call"]

\* a result of the Code Generation Step for the completion it received:
\* on success the returned content, a non-empty string, unchanged; on failure
\* the empty string; the language always 'javascript'
CodeResultShape(result, resp) ==
    /\ result.language = "javascript"
    /\ result.success =>
          /\ resp.r = "ok" /\ Len(resp.choices) > 0
          /\ result.code = resp.choices[1].message.content
          /\ result.code.t = "string" /\ result.code.s # ""
    /\ ~result.success => result.code = Str("")

\* C26: every result of a code generation run has that shape, whether the
\* developer agent is run directly or as Step B of a pipeline, and the source
\* text the pipeline sends to Schema Interpretation is the non-empty content
\* Step B received.
C26_GeneratedCodeShape ==
    /\ (inst.cls \in DeveloperClasses /\ pc = "done") =>
          HasReturned /\ CodeResultShape(ret.value, received[1])
    /\ (InPipeline /\ Len(received) >= 2) =>
          CodeResultShape(DeveloperRun(received[2]), received[2])
    /\ (InPipeline /\ Len(issued) >= 3) =>
          /\ issued[3].messages[2] = [role |-> "user", content |-> ContentOf(received[2])]
          /\ ContentOf(received[2]).t = "string" /\ ContentOf(received[2]).s # ""
          /\ loc.functionCode = ContentOf(received[2])

\* a developer run that returned prose as its code, unchanged
C26_Witness ==
    /\ inst.cls \in DeveloperClasses /\ HasReturned
    /\ ret.value.success
    /\ ret.value.code = ProseCode
    /\ ret.value.language = "javascript"

InArithmetic == inst.cls = "OpenAIMathAgent"

\* the routing completion carries a function call with a name and arguments
RoutingCalled ==
    /\ Len(received) >= 1
    /\ received[1].r = "ok" /\ Len(received[1].choices) > 0
    /\ received[1].choices[1].message.function_call.present
    /\ received[1].choices[1].message.function_call.name \notin {Undef, Null, Str("")}
    /\ received[1].choices[1].message.function_call.arguments \notin {NoText, EmptyText}

RoutingName == received[1].choices[1].message.function_call.name
RoutingArguments == JSONParse(received[1].choices[1].message.function_call.arguments)

\* C27: an arithmetic run sends the extraction request only after a routing
\* completion that called the function named dataTransformation; a call of
\* any other name ends the run with success=false, without an extraction
\* request and without mathOperation.  The user text of the extraction
\* request is the userMessage argument of the routing call, not the input
\* of run.
C27_DelegatesOnlyOnDataTransformation ==
    InArithmetic =>
        /\ (Len(issued) >= 2 \/ loc.mathCalled) =>
              /\ RoutingCalled
              /\ RoutingName = Str("dataTransformation")
              /\ RoutingArguments.ok
              /\ Len(issued) = 2
              /\ issued[2].step = "extract"
              /\ issued[2].messages[2] =
                    [role |-> "user", content |-> ObjGet(RoutingArguments.v, "userMessage")]
        /\ (RoutingCalled /\ RoutingName # Str("dataTransformation")) =>
              /\ HasReturned /\ ret.value.success = FALSE
              /\ Len(issued) = 1
              /\ ~loc.mathCalled

\* a run on 'add 1 and 2' whose extraction was asked 'what is 1 plus 2'
C27_Witness ==
    /\ InArithmetic /\ loc.mathCalled
    /\ input.userMessage = Str("add 1 and 2")
    /\ issued[2].messages[2].content = Str("what is 1 plus 2")
    /\ HasReturned /\ ret.value.success

\* the classification flag of a returned result
ReturnedFlag == ObjGet(ClassificationOf(ret.value), "successfullyClassified")

\* the run received a function call whose arguments parse to an object
ClassificationParsed == Len(received) = 1 /\ HasArgumentsObject(received[1])

\* the parsed arguments have no classification flag
FlagOmitted == \A p \in PairsOf(ClassifiedArguments) : p[1] # FlagKey(inst.cls)

\* C28: in the intent and sentiment agents success tells that a function
\* call was received and parsed, whatever the classification flag says: a
\* success=true result carries the model's flag, true or false, and null
\* where the model gave none; a success=false result always carries false.
C28_SuccessIndependentOfFlag ==
    (inst.cls \in ClassificationClasses /\ HasReturned) =>
        /\ ret.value.success <=> ClassificationParsed
        /\ ret.value.success =>
              IF FlagOmitted THEN ReturnedFlag = Null
              ELSE ReturnedFlag = ObjGet(ClassifiedArguments, FlagKey(inst.cls))
        /\ ~ret.value.success => ReturnedFlag = Bool(FALSE)

\* an intent run that succeeded although the model did not classify
C28_Witness ==
    /\ inst.cls = "IntentClassificationAgent" /\ HasReturned
    /\ ret.value.success
    /\ ~FlagOmitted
    /\ ReturnedFlag = Bool(FALSE)

\* a data transformation run received a function call with a name and a
\* non-empty arguments text
TransformationCalled ==
    /\ inst.cls \in DataTransformationClasses /\ HasReturned /\ Len(received) = 1
    /\ received[1].r = "ok" /\ Len(received[1].choices) > 0
    /\ received[1].choices[1].message.function_call.present
    /\ received[1].choices[1].message.function_call.name \notin {Undef, Null, Str("")}
    /\ received[1].choices[1].message.function_call.arguments \notin {NoText, EmptyText}

TransformationText == received[1].choices[1].message.function_call.arguments

\* the value a JSON text denotes: the literal, or the object of its pairs,
\* a repeated key keeping its place and its last value
Denoted(text) ==
    IF text.j = "literal" THEN text.lit
    ELSE LET keys == {text.written[i][1] : i \in 1..Len(text.written)}
             firstAt(k) == CHOOSE i \in 1..Len(text.written) :
                              /\ text.written[i][1] = k
                              /\ \A j \in 1..(i - 1) : text.written[j][1] # k
             lastAt(k) == CHOOSE i \in 1..Len(text.written) :
                              /\ text.written[i][1] = k
                              /\ \A j \in (i + 1)..Len(text.written) : text.written[j][1] # k
             order == CHOOSE q \in [1..Cardinality(keys) -> keys] :
                         /\ \A a, b \in 1..Cardinality(keys) :
                               a < b => firstAt(q[a]) < firstAt(q[b])
         IN Obj([i \in 1..Cardinality(keys) |->
                    <<order[i], text.written[lastAt(order[i])][2]>>])

\* C29: the data transformation agents return whatever the arguments text
\* denotes: any text that is JSON, be it an object without the schema's
\* required keys, null, a number or an array, gives success=true with json
\* equal to the parsed value; a text that is not JSON gives success=false.
C29_ArgumentsNotValidated ==
    TransformationCalled =>
        IF TransformationText.j \in {"object", "literal"}
        THEN /\ ret.value.success = TRUE
             /\ ret.value.json = Denoted(TransformationText)
        ELSE /\ ret.value.success = FALSE
             /\ ret.value.json = Obj(<<>>)

\* a run that returned the array its arguments text denotes
C29_Witness ==
    /\ TransformationCalled
    /\ inst.cls = "DataTransformationAgent"
    /\ TransformationText = LitText(Arr(<<Num(1)>>))
    /\ ret.value.success
    /\ ret.value.json = Arr(<<Num(1)>>)

\* the fields of the math input that are null or not there
AbsentFields ==
    {f \in {"operation", "input1", "input2"} :
        \/ \A p \in PairsOf(loc.mathInputs) : p[1] # f
        \/ <<f, Null>> \in PairsOf(loc.mathInputs)}

\* mathOperation returned success=true with json {result: n}
MathOperationGave(n) ==
    /\ loc.mathOperationResult.ok
    /\ loc.mathOperationResult.v.success = TRUE
    /\ loc.mathOperationResult.v.json = Obj(<<<<"result", Num(n)>>>>)

\* C30: mathOperation takes a field for missing only when it is null or not
\* there.  With a zero operand add, subtract and multiply succeed, and so
\* does divide with a zero first operand; an empty-string operation is never
\* reported missing, and with both operands there it is reported as the
\* invalid operation "".  Of several missing fields the one reported is
\* operation before input1 before input2; with none missing, no field is
\* reported missing.
C30_MissingMeansNullOrUndefined ==
    (inst.cls = "OpenAIMathAgent" /\ loc.mathCalled /\ loc.mathInputs.t = "object") =>
        /\ \A a \in (-MaxOperand)..MaxOperand :
              /\ MathApplied("add", 0, a) => MathOperationGave(a)
              /\ MathApplied("add", a, 0) => MathOperationGave(a)
              /\ MathApplied("subtract", a, 0) => MathOperationGave(a)
              /\ MathApplied("subtract", 0, a) => MathOperationGave(-a)
              /\ MathApplied("multiply", 0, a) => MathOperationGave(0)
              /\ MathApplied("multiply", a, 0) => MathOperationGave(0)
              /\ (MathApplied("divide", 0, a) /\ a # 0) => MathOperationGave(0)
        /\ ObjGet(loc.mathInputs, "operation") = Str("") =>
              /\ ~MathRejectedWith(<<"No operation found in math input: ">>)
              /\ AbsentFields = {} => MathRejectedWith(<<"Invalid operation \"", "", "\"">>)
        /\ "operation" \in AbsentFields =>
              MathRejectedWith(<<"No operation found in math input: ">>)
        /\ ("operation" \notin AbsentFields /\ "input1" \in AbsentFields) =>
              MathRejectedWith(<<"No input1 found in math input: ">>)
        /\ (AbsentFields = {"input2"}) =>
              MathRejectedWith(<<"No input2 found in math input: ">>)
        /\ AbsentFields = {} =>
              \A f \in {"operation", "input1", "input2"} :
                 ~MathRejectedWith(<<"No " \o f \o " found in math input: ">>)

\* mathOperation divided 0 by 2
C30_Witness ==
    /\ MathApplied("divide", 0, 2)
    /\ MathOperationGave(0)
    /\ AbsentFields = {}
    /\ HasReturned /\ ret.value.success

====
